---- MODULE Spec2Model ----
(***************************************************************************)
(* Model of the TFTP transfer engines of the repository:                   *)
(*   - TFTPConnectionBase      (src/src/util/connection.cpp), "base"       *)
(*   - TFTPClient              (src/src/client/client.cpp),   "client"     *)
(*   - TFTPServerConnection    (src/src/server/connection.cpp), "server"   *)
(* together with the packet factory and the NetASCII transform they use.   *)
(* An engine is a record; every handler is an operator from the engine and *)
(* the results of the system calls of one loop iteration (the datagram     *)
(* recvfrom returns, the outcome of file and socket I/O) to the new engine *)
(* and the datagrams it sent.                                              *)
(***************************************************************************)
EXTENDS Integers, Sequences, FiniteSets, TLC

(* ---------- bounds of the model ---------- *)
\* payload bytes of a full DATA block (512 in the program, scaled down)
TFTP_MAX_DATA == 2
\* longest source file / standard input of an uploading engine, in bytes
MaxFileLen == 3
\* an engine whose block_n exceeds MaxBlock is stepped no further
MaxBlock == 2
\* most bytes a downloading engine writes before the model stops stepping it
MaxWritten == 6
\* most timeouts in a row of one engine in a transfer between two engines
MaxTimeouts == 1
\* most bytes of a Request or OptionAck packet (512 in the program, scaled down)
MaxPacketLen == 16
\* longest filename, error message in the packets encoded
MaxNameLen == 2
\* most options of a Request and of an OptionAck packet encoded
MaxReqOpts == 1
MaxAckOpts == 4

(* ---------- program constants ---------- *)
TFTP_MAX_FILE_BLOCKS == 65535
TFTP_PACKET_TIMEO == 3
TFTP_MAX_RETRIES == 4
RRQ == 1
WRQ == 2
DATA == 3
ACK == 4
ERROR == 5
OACK == 6
Unknown == 0
FileNotFound == 1
AccessViolation == 2
IllegalOperation == 4
UnknownTID == 5
FileAlreadyExists == 6
NoSuchUser == 7
OptionNegotiation == 8
TFTP_MIN_BLKSIZE == 8
TFTP_MAX_BLKSIZE == 65464
\* characters the NetASCII transform distinguishes
NUL == 0
LF == 10
CR == 13

(* ---------- addresses ---------- *)
\* service port of the server, TID of the server transfer, TID of the
\* client, and a third party
SvcAddr == "svc"
SrvAddr == "srv"
CltAddr == "clt"
OthAddr == "oth"

(* ---------- NetASCII ---------- *)
\* the bytes as they are, no CR or LF expanded
vec_to_na_raw(data) == data

RECURSIVE vec_to_na_from(_, _)
vec_to_na_from(data, i) ==
  IF i > Len(data) THEN <<>>
  ELSE IF data[i] = LF THEN <<CR, LF>> \o vec_to_na_from(data, i + 1)
  ELSE IF data[i] = CR THEN
         IF i + 1 <= Len(data) /\ data[i + 1] = LF
         THEN <<CR, LF>> \o vec_to_na_from(data, i + 2)
         ELSE <<CR, NUL>> \o vec_to_na_from(data, i + 1)
  ELSE <<data[i]>> \o vec_to_na_from(data, i + 1)

vec_to_na(data) == vec_to_na_from(data, 1)

RECURSIVE na_to_vec_from(_, _)
na_to_vec_from(data, i) ==
  IF i > Len(data) THEN <<>>
  ELSE IF data[i] = CR THEN
         IF i + 1 <= Len(data) /\ data[i + 1] = LF
         THEN <<LF>> \o na_to_vec_from(data, i + 2)
         ELSE IF i + 1 <= Len(data) /\ data[i + 1] = NUL
         THEN <<CR>> \o na_to_vec_from(data, i + 2)
         ELSE <<CR>> \o na_to_vec_from(data, i + 1)
  ELSE <<data[i]>> \o na_to_vec_from(data, i + 1)

na_to_vec(data) == na_to_vec_from(data, 1)

(* ---------- datagrams ---------- *)
\* A datagram is its opcode, its 16-bit number field (block or error code),
\* its DATA payload, its length in bytes and whether its string fields
\* (file name, mode, option list) parse.
Dgram(op, num, data, size, body, from, to) ==
  [op |-> op, num |-> num, data |-> data, size |-> size, body |-> body,
   from |-> from, to |-> to]

\* recvfrom returned -1 with EAGAIN / EWOULDBLOCK
NoDgram == Dgram(0, 0, <<>>, -1, "ok", "none", "none")
\* recvfrom returned -1 with another errno
RecvFail == Dgram(0, 0, <<>>, -1, "fail", "none", "none")

\* the block number of a packet is a uint16_t
MkAck(b, from, to) ==
  Dgram(ACK, b % (TFTP_MAX_FILE_BLOCKS + 1), <<>>, 4, "ok", from, to)
MkData(b, data, from, to) ==
  Dgram(DATA, b % (TFTP_MAX_FILE_BLOCKS + 1), data, 4 + Len(data), "ok", from, to)
MkError(code, from, to) == Dgram(ERROR, code, <<>>, 5, "ok", from, to)
MkOack(from, to) == Dgram(OACK, 0, <<>>, 6, "ok", from, to)
MkRequest(op, from, to) == Dgram(op, 0, <<>>, 10, "ok", from, to)

\* PacketFactory::create with the from_binary it dispatches to: the set of
\* outcomes, "pkt" (decoded), "null" (nullptr) or "throw" (invalid_argument
\* leaves create).  A one-byte datagram has its opcode read past the end of
\* the vector, so either outcome may occur.
create(d) ==
  IF d.size = 0 THEN {"null"}
  ELSE IF d.size = 1 THEN {"null", "throw"}
  ELSE IF d.op \in {RRQ, WRQ}
       THEN IF d.size < 4 \/ d.size > 512 \/ d.body # "ok" THEN {"throw"} ELSE {"pkt"}
  ELSE IF d.op = DATA
       THEN IF d.size < 4 THEN {"throw"} ELSE {"pkt"}
  ELSE IF d.op = ACK
       THEN IF d.size # 4 THEN {"throw"} ELSE {"pkt"}
  ELSE IF d.op = ERROR
       THEN IF d.size < 4 \/ d.num > 7 THEN {"throw"} ELSE {"pkt"}
  ELSE IF d.op = OACK
       THEN IF d.size < 4 \/ d.size > 512 \/ d.body # "ok" THEN {"throw"} ELSE {"pkt"}
  ELSE {"null"}

\* DataPacket::from_binary applied to the receive buffer
DataPacket_from_binary_ok(d) == d.size >= 4 /\ d.op = DATA

(* ---------- the engine record ---------- *)
\* rx_buffer[0 .. rx_len) is kept as what DataPacket::from_binary, its only
\* reader, makes of it: whether it parses and the payload
EmptyBuf == [ok |-> FALSE, data |-> <<>>]

Buffered(rcv) ==
  IF DataPacket_from_binary_ok(rcv) THEN [ok |-> TRUE, data |-> rcv.data]
  ELSE EmptyBuf

\* impl: "base" | "client" | "server"; role: "init" (sends the request) or
\* "resp" (answers it); upload: the value of is_upload(), the engine sends
\* DATA; opts: the request carries options.  rx_buf stands for the first
\* rx_len bytes of rx_buffer; elapsed is the whole seconds since last_packet_time,
\* capped above the timeout, and half the half second passed beyond them
\* (0 or 1; steady_clock is finer than the second is_timedout counts); file is the local file being written, src the
\* local source being sent, pos the read position of standard input.
NewEngine(impl, role, upload, opts, format, src) ==
  [impl |-> impl, role |-> role, upload |-> upload, opts |-> opts,
   format |-> format,
   state |-> "Requesting", pstate |-> "Idle",
   block_n |-> 0, send_tries |-> 0,
   is_last |-> FALSE, cr_end |-> FALSE, file_created |-> FALSE,
   exec_unblock |-> FALSE, oack_expect |-> FALSE, oack_init |-> FALSE,
   exit_on_await |-> (impl = "base" /\ role = "resp"),
   addr_static |-> (impl = "base" /\ role = "resp"),
   own |-> IF role = "init" THEN CltAddr ELSE SrvAddr,
   rem_addr |-> IF role = "init" THEN SvcAddr ELSE CltAddr,
   rx_len |-> 0, rx_buf |-> EmptyBuf,
   elapsed |-> TFTP_PACKET_TIMEO + 1, half |-> 0,
   file |-> <<>>, src |-> src, pos |-> 0,
   in_exec |-> TRUE, crashed |-> FALSE]

\* is_running that takes a completed transfer for a running one
is_running_completed(e) == e.state # "Errored"

is_running(e) == e.state # "Completed" /\ e.state # "Errored"

is_timedout(e) == e.elapsed > TFTP_PACKET_TIMEO

update_sent_time(e) == [e EXCEPT !.elapsed = 0, !.half = 0]

set_state(e, new_state) ==
  [e EXCEPT !.pstate = e.state, !.state = new_state,
            !.exec_unblock = IF e.exit_on_await /\ new_state = "Awaiting"
                             THEN TRUE ELSE @]

\* result of a handler: the engine, the datagrams sent (in order) and
\* whether an exception left the handler
Ret(e, out) == [e |-> e, out |-> out, exc |-> FALSE]
Throw(e) == [e |-> e, out |-> <<>>, exc |-> TRUE]

\* TFTPConnectionBase::send_error
send_error(e, code) ==
  Ret(set_state(update_sent_time(e), "Errored"),
      <<MkError(code, e.own, e.rem_addr)>>)

\* TFTPConnectionBase::proc_opts: no option is accepted
proc_opts(opts) == <<>>

\* bytes [from+1 .. from+n] of s, as far as they exist
Cut(s, from, n) ==
  IF from >= Len(s) THEN <<>>
  ELSE SubSeq(s, from + 1, IF from + n <= Len(s) THEN from + n ELSE Len(s))

\* DataPacket::read_file_data in NetASCII mode: the file is read in chunks
\* of TFTP_MAX_DATA bytes until block_n * TFTP_MAX_DATA bytes were read,
\* every chunk is converted on its own and appended to the buffer
RECURSIVE read_chunks(_, _, _)
read_chunks(file, bytes_all, ofst_last) ==
  IF bytes_all >= ofst_last \/ bytes_all >= Len(file) THEN <<>>
  ELSE LET chunk == Cut(file, bytes_all, TFTP_MAX_DATA) IN
       vec_to_na(chunk) \o read_chunks(file, bytes_all + Len(chunk), ofst_last)

\* DataPacket::read_file_data
read_file_data(file, block_n, format) ==
  IF block_n < 1 THEN <<>>
  ELSE IF format = "octet" THEN Cut(file, (block_n - 1) * TFTP_MAX_DATA, TFTP_MAX_DATA)
  ELSE Cut(read_chunks(file, 0, block_n * TFTP_MAX_DATA),
           (block_n - 1) * TFTP_MAX_DATA, TFTP_MAX_DATA)

\* next_data of the base engine (pure virtual there): the DATA packet of
\* block_n read from the local file
next_data(e) == read_file_data(e.src, e.block_n, e.format)

(* ---------- TFTPConnectionBase ---------- *)
\* handle_request_upload / handle_request_download (pure virtual in the
\* base): the initiator sends RRQ or WRQ and awaits the first reply, the
\* responder opens its file and goes on to send its first packet
base_handle_request(e, io) ==
  IF e.role = "init" THEN
    IF io = "wfail" /\ ~e.upload THEN send_error(e, AccessViolation)
    ELSE Ret(set_state(update_sent_time(
               [e EXCEPT !.oack_expect = e.opts,
                         !.file_created = ~e.upload]), "Awaiting"),
             <<MkRequest(IF e.upload THEN WRQ ELSE RRQ, e.own, e.rem_addr)>>)
  ELSE
    IF io = "wfail"
    THEN send_error(e, IF e.upload THEN FileNotFound ELSE FileAlreadyExists)
    ELSE Ret(set_state([e EXCEPT !.oack_init = (e.opts /\ proc_opts(e.opts) # <<>>),
                                 !.file_created = ~e.upload],
                       IF e.upload THEN "Uploading" ELSE "Downloading"), <<>>)

\* TFTPConnectionBase::handle_upload
base_handle_upload(e) ==
  IF e.block_n = 0 /\ e.oack_init
  THEN Ret(set_state(update_sent_time(e), "Awaiting"),
           <<MkOack(e.own, e.rem_addr)>>)
  ELSE LET e1 == update_sent_time([e EXCEPT !.block_n = IF @ = 0 THEN 1 ELSE @])
           payload == next_data(e1)
           e2 == [e1 EXCEPT !.is_last = (Len(payload) + 4 < TFTP_MAX_DATA + 4)]
       IN Ret(set_state(e2, "Awaiting"),
              <<MkData(e2.block_n, payload, e.own, e.rem_addr)>>)

\* TFTPConnectionBase::recv_packet; got is has_value() of the result
Got(r, g) == [e |-> r.e, out |-> r.out, exc |-> r.exc, got |-> g]

Ungot(r) == [e |-> r.e, out |-> r.out, exc |-> r.exc]

base_recv_packet(e, rcv, dec, addr_overwrite) ==
  LET e1 == [e EXCEPT !.rx_len = rcv.size, !.rx_buf = Buffered(rcv)] IN
  IF rcv.size < 0 THEN
    IF rcv.body = "fail" THEN Got(send_error(e1, Unknown), FALSE)
    ELSE Got(Ret(e1, <<>>), FALSE)
  ELSE IF dec = "throw" THEN Got(Throw(e1), FALSE)
  ELSE IF dec = "null" THEN Got(send_error(e1, IllegalOperation), FALSE)
  ELSE IF ~e1.addr_static /\ addr_overwrite
       THEN Got(Ret([e1 EXCEPT !.rem_addr = rcv.from], <<>>), TRUE)
  ELSE IF rcv.from # e1.rem_addr
       THEN Got(Ret([update_sent_time(e1) EXCEPT !.rx_len = 0, !.rx_buf = EmptyBuf],
                    <<MkError(UnknownTID, e1.own, rcv.from)>>), FALSE)
  ELSE Got(Ret(e1, <<>>), TRUE)

\* the timeout branch the two await handlers of the base share
base_timeout(e) ==
  LET e1 == [e EXCEPT !.send_tries = @ + 1] IN
  IF e1.send_tries > TFTP_MAX_RETRIES THEN send_error(e1, Unknown)
  ELSE Ret(set_state(e1, e1.pstate), <<>>)

\* tail of handle_await_upload after the (O)ACK was accepted
base_upload_advance(e) ==
  LET e1 == [e EXCEPT !.send_tries = 0] IN
  IF e1.is_last THEN Ret(set_state(e1, "Completed"), <<>>)
  ELSE IF e1.block_n = TFTP_MAX_FILE_BLOCKS
       THEN send_error([e1 EXCEPT !.block_n = @ + 1], Unknown)
  ELSE Ret(set_state([e1 EXCEPT !.block_n = @ + 1], "Uploading"), <<>>)

\* handle_await_upload without the check for an ACK of a future block
base_handle_await_upload_nofuture(e, rcv, dec) ==
  IF is_timedout(e) THEN base_timeout(e)
  ELSE LET r == base_recv_packet(e, rcv, dec, e.block_n = 0)
           e1 == r.e
       IN
       IF ~r.got THEN Ungot(r)
       ELSE IF rcv.op = ERROR THEN Ret(set_state(e1, "Errored"), <<>>)
       ELSE IF rcv.op # ACK /\ rcv.op # OACK THEN send_error(e1, IllegalOperation)
       ELSE IF rcv.op = OACK THEN
              IF ~e1.oack_expect THEN Ret(e1, <<>>)
              ELSE base_upload_advance([e1 EXCEPT !.oack_expect = FALSE])
       ELSE IF rcv.num < e1.block_n THEN Ret(e1, <<>>)
       ELSE base_upload_advance(e1)

\* handle_await_upload without the check for a stray ACK of a past block
base_handle_await_upload_nostray(e, rcv, dec) ==
  IF is_timedout(e) THEN base_timeout(e)
  ELSE LET r == base_recv_packet(e, rcv, dec, e.block_n = 0)
           e1 == r.e
       IN
       IF ~r.got THEN Ungot(r)
       ELSE IF rcv.op = ERROR THEN Ret(set_state(e1, "Errored"), <<>>)
       ELSE IF rcv.op # ACK /\ rcv.op # OACK THEN send_error(e1, IllegalOperation)
       ELSE IF rcv.op = OACK THEN
              IF ~e1.oack_expect THEN Ret(e1, <<>>)
              ELSE base_upload_advance([e1 EXCEPT !.oack_expect = FALSE])
       ELSE IF rcv.num > e1.block_n THEN send_error(e1, IllegalOperation)
       ELSE base_upload_advance(e1)

\* TFTPConnectionBase::handle_await_upload
base_handle_await_upload(e, rcv, dec) ==
  IF is_timedout(e) THEN base_timeout(e)
  ELSE LET r == base_recv_packet(e, rcv, dec, e.block_n = 0)
           e1 == r.e
       IN
       IF ~r.got THEN Ungot(r)
       ELSE IF rcv.op = ERROR THEN Ret(set_state(e1, "Errored"), <<>>)
       ELSE IF rcv.op # ACK /\ rcv.op # OACK THEN send_error(e1, IllegalOperation)
       ELSE IF rcv.op = OACK THEN
              IF ~e1.oack_expect THEN Ret(e1, <<>>)
              ELSE base_upload_advance([e1 EXCEPT !.oack_expect = FALSE])
       ELSE IF rcv.num < e1.block_n THEN Ret(e1, <<>>)
       ELSE IF rcv.num > e1.block_n THEN send_error(e1, IllegalOperation)
       ELSE base_upload_advance(e1)

\* TFTPConnectionBase::handle_await_download
base_handle_await_download(e, rcv, dec) ==
  IF is_timedout(e) THEN base_timeout(e)
  ELSE LET r == base_recv_packet(e, rcv, dec, e.block_n = 0)
           e1 == r.e
           fwd(x) == Ret(set_state([x EXCEPT !.send_tries = 0], "Downloading"), <<>>)
       IN
       IF ~r.got THEN Ungot(r)
       ELSE IF rcv.op = ERROR THEN Ret(set_state(e1, "Errored"), <<>>)
       ELSE IF rcv.op # DATA /\ rcv.op # OACK THEN send_error(e1, IllegalOperation)
       ELSE IF rcv.op = OACK THEN
              IF ~e1.oack_expect THEN Ret(e1, <<>>)
              ELSE fwd([e1 EXCEPT !.oack_expect = FALSE])
       ELSE IF rcv.num < e1.block_n + 1 THEN Ret(e1, <<>>)
       ELSE IF rcv.num > e1.block_n + 1 THEN send_error(e1, IllegalOperation)
       ELSE IF e1.block_n = TFTP_MAX_FILE_BLOCKS - 1
            THEN send_error([e1 EXCEPT !.block_n = @ + 1], Unknown)
       ELSE fwd([e1 EXCEPT !.block_n = @ + 1])

\* the NetASCII part of handle_download: the CR-splice on the file and the
\* block, then the conversion; yields the file before the write and the
\* bytes to write
splice(file, cr_end, data) ==
  IF cr_end /\ data[1] = LF
  THEN [file |-> IF Len(file) > 0 THEN SubSeq(file, 1, Len(file) - 1) ELSE file,
        data |-> na_to_vec(data)]
  ELSE IF cr_end /\ data[1] = NUL
  THEN [file |-> file, data |-> na_to_vec(Tail(data))]
  ELSE [file |-> file, data |-> na_to_vec(data)]

\* TFTPConnectionBase::handle_download
base_handle_download(e, io) ==
  IF e.block_n = 0 /\ e.oack_init
  THEN Ret(set_state(update_sent_time(e), "Awaiting"),
           <<MkOack(e.own, e.rem_addr)>>)
  ELSE LET e1 == update_sent_time(e)
           ack == MkAck(e.block_n, e.own, e.rem_addr)
       IN
       IF e1.block_n = 0 \/ e1.rx_len <= 0
       THEN Ret(set_state(e1, "Awaiting"), <<ack>>)
       ELSE IF ~e1.rx_buf.ok
       THEN send_error(e1, IllegalOperation)
       ELSE LET raw == e1.rx_buf.data
                w == IF e1.format = "netascii" /\ raw # <<>>
                     THEN splice(e1.file, e1.cr_end, raw)
                     ELSE [file |-> e1.file, data |-> raw]
                e2 == [e1 EXCEPT !.cr_end = (w.data # <<>> /\ w.data[Len(w.data)] = CR),
                                 !.file = w.file]
            IN
            IF io = "wfail" THEN send_error(e2, AccessViolation)
            ELSE LET e3 == [e2 EXCEPT !.file = w.file \o w.data,
                                      !.rx_len = 0, !.rx_buf = EmptyBuf]
                 IN Ret(set_state(e3, IF Len(raw) < TFTP_MAX_DATA
                                      THEN "Completed" ELSE "Awaiting"),
                        <<ack>>)

(* ---------- TFTPClient ---------- *)
\* TFTPClient::send_error
clt_send_error(e, code) ==
  Ret([e EXCEPT !.state = "Errored"], <<MkError(code, e.own, e.rem_addr)>>)

\* TFTPClient::send_wrq
clt_send_wrq(e) ==
  Ret([update_sent_time(e) EXCEPT !.state = "Awaiting"],
      <<MkRequest(WRQ, e.own, e.rem_addr)>>)

\* TFTPClient::send_rrq
clt_send_rrq(e, io) ==
  IF io = "wfail" THEN clt_send_error(e, AccessViolation)
  ELSE Ret([update_sent_time(e) EXCEPT !.file_created = TRUE, !.file = <<>>,
                                       !.state = "Awaiting"],
           <<MkRequest(RRQ, e.own, e.rem_addr)>>)

\* the timeout branch of TFTPClient::handle_await_upload / _download
clt_timeout(e) ==
  IF e.send_tries + 1 >= TFTP_MAX_RETRIES THEN clt_send_error(e, Unknown)
  ELSE Ret([e EXCEPT !.send_tries = @ + 1,
                     !.state = IF e.block_n = 0 THEN "Requesting"
                               ELSE IF e.upload THEN "Uploading"
                               ELSE "Downloading"], <<>>)

\* TFTPClient::recv_packet
clt_recv_packet(e, rcv, dec, addr_overwrite) ==
  LET e1 == [e EXCEPT !.rx_len = rcv.size, !.rx_buf = Buffered(rcv)] IN
  IF rcv.size < 0 THEN
    IF rcv.body = "fail" THEN Got(clt_send_error(e1, Unknown), FALSE)
    ELSE Got(Ret(e1, <<>>), FALSE)
  ELSE IF dec = "throw" THEN Got(Throw(e1), FALSE)
  ELSE IF dec = "null" THEN Got(clt_send_error(e1, IllegalOperation), FALSE)
  ELSE IF ~addr_overwrite /\ rcv.from # e1.rem_addr
       THEN Got(Ret([e1 EXCEPT !.rx_len = 0, !.rx_buf = EmptyBuf], <<>>), FALSE)
  ELSE IF addr_overwrite
       THEN Got(Ret([e1 EXCEPT !.rem_addr = rcv.from], <<>>), TRUE)
  ELSE Got(Ret(e1, <<>>), TRUE)

\* TFTPClient::handle_await_upload
clt_handle_await_upload(e, rcv, dec) ==
  IF is_timedout(e) THEN clt_timeout(e)
  ELSE LET r == clt_recv_packet(e, rcv, dec, e.block_n = 0)
           e1 == r.e
       IN
       IF ~r.got THEN Ungot(r)
       ELSE IF rcv.op # ACK THEN clt_send_error(e1, IllegalOperation)
       ELSE IF rcv.num < e1.block_n THEN Ret(e1, <<>>)
       ELSE IF rcv.num > e1.block_n THEN clt_send_error(e1, IllegalOperation)
       ELSE IF e1.is_last THEN Ret([e1 EXCEPT !.state = "Completed"], <<>>)
       ELSE IF e1.block_n = TFTP_MAX_FILE_BLOCKS THEN clt_send_error(e1, Unknown)
       ELSE Ret([e1 EXCEPT !.block_n = @ + 1, !.send_tries = 0,
                           !.state = "Uploading"], <<>>)

\* TFTPClient::handle_upload: the next chunk of standard input is read on
\* every call
clt_handle_upload(e) ==
  LET e1 == update_sent_time([e EXCEPT !.block_n = IF @ = 0 THEN 1 ELSE @])
      chunk == Cut(e1.src, e1.pos, TFTP_MAX_DATA)
  IN Ret([e1 EXCEPT !.pos = @ + Len(chunk),
                    !.is_last = (Len(chunk) + 4 < TFTP_MAX_DATA + 4),
                    !.state = "Awaiting"],
         <<MkData(e1.block_n, chunk, e.own, e.rem_addr)>>)

\* TFTPClient::handle_await_download
clt_handle_await_download(e, rcv, dec) ==
  IF is_timedout(e) THEN clt_timeout(e)
  ELSE LET r == clt_recv_packet(e, rcv, dec, e.block_n = 0)
           e1 == r.e
       IN
       IF ~r.got THEN Ungot(r)
       ELSE IF rcv.op # DATA THEN clt_send_error(e1, IllegalOperation)
       ELSE IF e1.block_n = TFTP_MAX_FILE_BLOCKS
            THEN clt_send_error(e1, IllegalOperation)
       ELSE Ret([e1 EXCEPT !.block_n = @ + 1, !.send_tries = 0,
                           !.state = "Downloading"], <<>>)

\* TFTPClient::handle_download
clt_handle_download(e, io) ==
  LET e1 == update_sent_time(e)
      ack == MkAck(e.block_n, e.own, e.rem_addr)
  IN
  IF e1.block_n = 0 \/ e1.rx_len <= 0
  THEN IF io = "sfail" THEN clt_send_error(e1, Unknown)
       ELSE Ret([e1 EXCEPT !.state = "Awaiting"], <<ack>>)
  ELSE IF ~e1.rx_buf.ok THEN Throw(e1)
  ELSE LET raw == e1.rx_buf.data
           w == IF e1.format = "netascii" /\ raw # <<>>
                THEN splice(e1.file, e1.cr_end, raw)
                ELSE [file |-> e1.file, data |-> raw]
       IN
       IF io = "wfail" THEN clt_send_error([e1 EXCEPT !.file = w.file], AccessViolation)
       ELSE LET e2 == [e1 EXCEPT !.file = w.file \o w.data,
                                 !.cr_end = (w.data # <<>> /\ w.data[Len(w.data)] = CR),
                                 !.rx_len = 0, !.rx_buf = EmptyBuf]
            IN
            IF io = "sfail" THEN clt_send_error(e2, Unknown)
            ELSE Ret([e2 EXCEPT !.state = IF Len(raw) < TFTP_MAX_DATA
                                          THEN "Completed" ELSE "Awaiting"],
                     <<ack>>)

(* ---------- TFTPServerConnection ---------- *)
\* TFTPServerConnection::send_error
srv_send_error(e, code) ==
  Ret([e EXCEPT !.state = "Errored"], <<MkError(code, e.own, e.rem_addr)>>)

\* TFTPServerConnection::handle_rrq
srv_handle_rrq(e, io) ==
  IF io = "wfail" THEN srv_send_error(e, FileNotFound)
  ELSE Ret([e EXCEPT !.state = "Uploading"], <<>>)

\* handle_wrq without the check that the file exists
srv_handle_wrq_nocheck(e, io) ==
  Ret([e EXCEPT !.file = <<>>, !.file_created = TRUE,
                !.state = "Downloading"], <<>>)

\* TFTPServerConnection::handle_wrq; the class keeps no flag of its own for
\* the file it created: file_created records that open() with O_CREAT has
\* succeeded
srv_handle_wrq(e, io) ==
  IF io = "wfail" THEN srv_send_error(e, FileAlreadyExists)
  ELSE Ret([e EXCEPT !.file = <<>>, !.file_created = TRUE,
                     !.state = "Downloading"], <<>>)

\* TFTPServerConnection::handle_upload
srv_handle_upload(e) ==
  LET e1 == update_sent_time([e EXCEPT !.block_n = IF @ = 0 THEN 1 ELSE @])
      payload == read_file_data(e1.src, e1.block_n, e1.format)
  IN Ret([e1 EXCEPT !.is_last = (Len(payload) + 4 < TFTP_MAX_DATA + 4),
                    !.state = "Awaiting"],
         <<MkData(e1.block_n, payload, e.own, e.rem_addr)>>)

\* the timeout branch of TFTPServerConnection::handle_await_upload /
\* _download
srv_timeout(e) ==
  IF e.send_tries + 1 >= TFTP_MAX_RETRIES THEN srv_send_error(e, Unknown)
  ELSE Ret([e EXCEPT !.send_tries = @ + 1,
                     !.state = IF e.upload THEN "Uploading" ELSE "Downloading"],
           <<>>)

\* the recvfrom and PacketFactory::create both await handlers start with;
\* recvfrom stores the origin in clt_addr
srv_recv(e, rcv, dec) ==
  LET e1 == [e EXCEPT !.rx_len = rcv.size, !.rx_buf = Buffered(rcv),
                      !.rem_addr = IF rcv.size < 0 THEN @ ELSE rcv.from] IN
  IF rcv.size < 0 THEN
    IF rcv.body = "fail" THEN Got(srv_send_error(e1, Unknown), FALSE)
    ELSE Got(Ret(e1, <<>>), FALSE)
  ELSE IF dec = "throw" THEN Got(Throw(e1), FALSE)
  ELSE IF dec = "null" THEN Got(srv_send_error(e1, IllegalOperation), FALSE)
  ELSE Got(Ret(e1, <<>>), TRUE)

\* TFTPServerConnection::handle_await_upload
srv_handle_await_upload(e, rcv, dec) ==
  IF is_timedout(e) THEN srv_timeout(e)
  ELSE LET r == srv_recv(e, rcv, dec)
           e1 == r.e
       IN
       IF ~r.got THEN Ungot(r)
       ELSE IF rcv.op # ACK THEN srv_send_error(e1, IllegalOperation)
       ELSE IF rcv.num < e1.block_n THEN Ret(e1, <<>>)
       ELSE IF rcv.num > e1.block_n THEN srv_send_error(e1, IllegalOperation)
       ELSE IF e1.is_last THEN Ret([e1 EXCEPT !.state = "Completed"], <<>>)
       ELSE Ret([e1 EXCEPT !.block_n = @ + 1, !.send_tries = 0,
                           !.state = "Uploading"], <<>>)

\* TFTPServerConnection::handle_await_download
srv_handle_await_download(e, rcv, dec) ==
  IF is_timedout(e) THEN srv_timeout(e)
  ELSE LET r == srv_recv(e, rcv, dec)
           e1 == r.e
       IN
       IF ~r.got THEN Ungot(r)
       ELSE IF rcv.op # DATA THEN srv_send_error(e1, IllegalOperation)
       ELSE Ret([e1 EXCEPT !.block_n = @ + 1, !.send_tries = 0,
                           !.state = "Downloading"], <<>>)

\* TFTPServerConnection::handle_download
srv_handle_download(e, io) ==
  LET e1 == update_sent_time(e)
      ack == MkAck(e.block_n, e.own, e.rem_addr)
  IN
  IF e1.block_n = 0 \/ e1.rx_len <= 0
  THEN IF io = "sfail" THEN srv_send_error(e1, Unknown)
       ELSE Ret([e1 EXCEPT !.state = "Awaiting"], <<ack>>)
  ELSE IF ~e1.rx_buf.ok THEN Throw(e1)
  ELSE LET raw == e1.rx_buf.data
           w == IF e1.format = "netascii" /\ raw # <<>>
                THEN splice(e1.file, e1.cr_end, raw)
                ELSE [file |-> e1.file, data |-> raw]
       IN
       IF io = "wfail" THEN srv_send_error([e1 EXCEPT !.file = w.file], AccessViolation)
       ELSE LET e2 == [e1 EXCEPT !.file = w.file \o w.data,
                                 !.cr_end = (w.data # <<>> /\ w.data[Len(w.data)] = CR),
                                 !.rx_len = 0, !.rx_buf = EmptyBuf]
            IN
            IF io = "sfail" THEN srv_send_error(e2, Unknown)
            ELSE Ret([e2 EXCEPT !.state = IF Len(raw) < TFTP_MAX_DATA
                                          THEN "Completed" ELSE "Awaiting"],
                     <<ack>>)


(* ---------- the handling loops ---------- *)
\* result of one iteration: brk, the loop was left by break or return
Brk(r, b) == [e |-> r.e, out |-> r.out, exc |-> r.exc, brk |-> b]

\* exec, one iteration, of a connection that does not look at the shutdown
\* flag
base_exec_noshutd(e, shutd, rcv, dec, io) ==
  IF e.exec_unblock THEN Brk(Ret([e EXCEPT !.exec_unblock = FALSE], <<>>), TRUE)
  ELSE IF e.state = "Requesting" THEN Brk(base_handle_request(e, io), FALSE)
  ELSE IF e.state = "Awaiting"
       THEN Brk(IF e.upload THEN base_handle_await_upload(e, rcv, dec)
                ELSE base_handle_await_download(e, rcv, dec), FALSE)
  ELSE IF e.state = "Uploading" THEN Brk(base_handle_upload(e), FALSE)
  ELSE IF e.state = "Downloading" THEN Brk(base_handle_download(e, io), FALSE)
  ELSE Brk(send_error(e, Unknown), TRUE)

\* TFTPConnectionBase::exec, one iteration
base_exec(e, shutd, rcv, dec, io) ==
  IF e.exec_unblock THEN Brk(Ret([e EXCEPT !.exec_unblock = FALSE], <<>>), TRUE)
  ELSE IF shutd THEN Brk(send_error(e, Unknown), TRUE)
  ELSE IF e.state = "Requesting" THEN Brk(base_handle_request(e, io), FALSE)
  ELSE IF e.state = "Awaiting"
       THEN Brk(IF e.upload THEN base_handle_await_upload(e, rcv, dec)
                ELSE base_handle_await_download(e, rcv, dec), FALSE)
  ELSE IF e.state = "Uploading" THEN Brk(base_handle_upload(e), FALSE)
  ELSE IF e.state = "Downloading" THEN Brk(base_handle_download(e, io), FALSE)
  ELSE Brk(send_error(e, Unknown), TRUE)

\* TFTPClient::conn_exec, one iteration
clt_conn_exec(e, shutd, rcv, dec, io) ==
  IF shutd THEN Brk(clt_send_error(e, Unknown), TRUE)
  ELSE IF e.state = "Requesting"
       THEN Brk(IF e.upload THEN clt_send_wrq(e) ELSE clt_send_rrq(e, io), FALSE)
  ELSE IF e.state = "Uploading" THEN Brk(clt_handle_upload(e), FALSE)
  ELSE IF e.state = "Downloading" THEN Brk(clt_handle_download(e, io), FALSE)
  ELSE IF e.state = "Awaiting"
       THEN Brk(IF e.upload THEN clt_handle_await_upload(e, rcv, dec)
                ELSE clt_handle_await_download(e, rcv, dec), FALSE)
  ELSE Brk(clt_send_error(e, Unknown), TRUE)

\* TFTPServerConnection::run, one iteration
srv_run(e, shutd, rcv, dec, io) ==
  IF shutd THEN Brk(srv_send_error(e, Unknown), TRUE)
  ELSE IF e.state = "Requesting"
       THEN Brk(IF e.upload THEN srv_handle_rrq(e, io) ELSE srv_handle_wrq(e, io), FALSE)
  ELSE IF e.state = "Uploading" THEN Brk(srv_handle_upload(e), FALSE)
  ELSE IF e.state = "Downloading" THEN Brk(srv_handle_download(e, io), FALSE)
  ELSE IF e.state = "Awaiting"
       THEN Brk(IF e.upload THEN srv_handle_await_upload(e, rcv, dec)
                ELSE srv_handle_await_download(e, rcv, dec), FALSE)
  ELSE Brk(Ret([e EXCEPT !.state = "Errored"], <<>>), FALSE)

\* one iteration of the loop of the engine's class
exec(e, shutd, rcv, dec, io) ==
  IF e.impl = "base" THEN base_exec(e, shutd, rcv, dec, io)
  ELSE IF e.impl = "client" THEN clt_conn_exec(e, shutd, rcv, dec, io)
  ELSE srv_run(e, shutd, rcv, dec, io)

\* the iteration reaches recvfrom
Receives(e, shutd) ==
  ~e.exec_unblock /\ ~shutd /\ e.state = "Awaiting" /\ ~is_timedout(e)

\* the iteration performs the file or socket call whose failure io stands for
Fallible(e, shutd) ==
  ~e.exec_unblock /\ ~shutd /\ e.state \in {"Requesting", "Downloading"}

(* ---------- state ---------- *)
\* eng[1] is the engine of the initiating side, eng[2] the engine answering
\* it, eng[3] a second connection of the server; srv is the TFTPServer (its
\* position in srv_poll / stop, its connections vector, the quit flag); call
\* is the last call of a function of the packet and NetASCII classes: the
\* function, its argument and what it returned; net is the set of datagrams sent so far (each may still be delivered,
\* any number of times); shutd[i] is the shutdown flag of the process of
\* engine i; out, lastRcv, lastDec and who record the last loop iteration:
\* the datagrams it sent, the datagram its recvfrom returned, what
\* PacketFactory::create made of it, and the engine; hist[i] is the number
\* of datagrams other than ERROR engine i sent since a datagram reached it.
VARIABLES eng, net, shutd, out, lastRcv, lastDec, who, hist, srv, call

vars == <<eng, net, shutd, out, lastRcv, lastDec, who, hist, srv, call>>

Engines == {1, 2, 3}

\* no function was called
NoCall == [f |-> "none", kind |-> "none", arg |-> <<>>, res |-> <<>>]

\* the TFTPServer where none is modelled; pc: position of the server loop,
\* connections: the connections vector (engine numbers), fds: the poll set
\* (descriptors), cur: the connection
\* whose exec() is running or ran last, rm: srv_poll removes it when it has
\* finished, quit: SIGINT was received, ev: what the last poll() reported
NoServer ==
  [pc |-> "none", connections |-> <<>>, fds |-> <<>>, cur |-> 0,
   rm |-> FALSE, quit |-> FALSE, ev |-> "none"]

\* source of an upload: bytes 1 .. n
Source(n) == [k \in 1..n |-> k]

\* payloads of block b: a full one and one a byte short, every byte b
FullBlock(b) == [k \in 1..TFTP_MAX_DATA |-> b]

ShortBlock(b) == [k \in 1..(TFTP_MAX_DATA - 1) |-> b]

\* an engine that does not exist (yet)
Absent(impl) ==
  [NewEngine(impl, "resp", FALSE, FALSE, "octet", <<>>)
     EXCEPT !.state = "Idle", !.in_exec = FALSE]

Sends(o) == {o[k] : k \in 1..Len(o)}

NonError(o) == Cardinality({k \in 1..Len(o) : o[k].op # ERROR})

\* a loop iteration of engine i with the given system call results; keep:
\* the datagrams sent are kept for delivery to the other engine
Iterate(i, rcv, dec, io, keep) ==
  LET e == eng[i]
      r == exec(e, shutd[i], rcv, dec, io)
  IN /\ eng' = [eng EXCEPT ![i] =
                  [r.e EXCEPT !.in_exec = ~r.brk /\ ~r.exc /\ is_running(r.e),
                              !.crashed = r.exc]]
     /\ net' = IF keep THEN net \cup Sends(r.out) ELSE net
     /\ out' = r.out
     /\ lastRcv' = rcv
     /\ lastDec' = dec
     /\ who' = i
     /\ hist' = [hist EXCEPT ![i] =
                   IF rcv.size >= 0 THEN 0 ELSE @ + NonError(r.out)]
     /\ UNCHANGED <<shutd, srv, call>>

\* the loop of the engine is running (while (is_running())) and the model's
\* bounds are not exceeded
CanStep(e) ==
  /\ e.in_exec /\ is_running(e) /\ ~e.crashed
  /\ e.block_n <= MaxBlock
  /\ Len(e.file) <= MaxWritten

\* what recvfrom may return in the iteration, given the datagrams that may
\* arrive; nothing when the iteration does not reach recvfrom
RcvSet(e, sh, arr) == IF Receives(e, sh) THEN arr \cup {NoDgram} ELSE {NoDgram}

DecSet(rcv) == IF rcv.size >= 0 THEN create(rcv) ELSE {"none"}

IoSet(e, sh) == IF Fallible(e, sh) THEN {"ok", "wfail", "sfail"} ELSE {"ok"}

\* the address the transfer's real peer sends from
Peer(e) == IF e.role = "init" THEN SrvAddr ELSE CltAddr

\* datagrams an arbitrary network may hand to the engine: from the peer,
\* DATA and ACK of the block before the awaited one, of the awaited one and
\* of the one after it, ERROR, OACK, a request, an unknown opcode, datagrams
\* from_binary rejects, an empty and a one-byte datagram; from a third
\* party, the awaited packet, an ERROR and two undecodable datagrams
Inject(e) ==
  LET to == e.own
      p == Peer(e)
      o == OthAddr
      d == IF e.upload THEN e.block_n ELSE e.block_n + 1
      near == {b \in {d - 1, d, d + 1} : b >= 0}
      mine == IF e.upload
              THEN {MkAck(b, p, to) : b \in near} \cup {MkData(1, <<>>, p, to)}
              ELSE {MkData(b, FullBlock(b), p, to) : b \in near}
                   \cup {MkData(d, ShortBlock(d), p, to), MkAck(0, p, to)}
      wanted == IF e.upload THEN MkAck(d, o, to) ELSE MkData(d, ShortBlock(d), o, to)
  IN mine \cup
     {Dgram(DATA, 0, <<>>, 3, "ok", p, to), Dgram(ACK, 0, <<>>, 5, "ok", p, to),
      MkError(Unknown, p, to), MkError(9, p, to), MkOack(p, to),
      MkRequest(RRQ, p, to), Dgram(7, 0, <<>>, 4, "ok", p, to),
      Dgram(0, 0, <<>>, 0, "ok", p, to), Dgram(0, 0, <<>>, 1, "ok", p, to),
      wanted, MkError(Unknown, o, to), Dgram(7, 0, <<>>, 4, "ok", o, to),
      Dgram(ACK, 0, <<>>, 5, "ok", o, to)}

\* one iteration of the loop of engine i
Step(i, arr, keep) ==
  /\ CanStep(eng[i])
  /\ \E rcv \in RcvSet(eng[i], shutd[i], arr) :
       \E dec \in DecSet(rcv) :
         \E io \in IoSet(eng[i], shutd[i]) : Iterate(i, rcv, dec, io, keep)

Idles == out' = <<>> /\ lastRcv' = NoDgram /\ lastDec' = "none" /\ who' = 0

\* time passes: a second more since last_packet_time of every engine that
\* awaits a packet (the other states set last_packet_time before reading it)
Tick ==
  /\ \E i \in Engines : eng[i].state = "Awaiting"
                        /\ eng[i].elapsed <= TFTP_PACKET_TIMEO
  /\ eng' = [i \in Engines |->
               IF eng[i].state = "Awaiting" /\ eng[i].elapsed <= TFTP_PACKET_TIMEO
               THEN [eng[i] EXCEPT !.elapsed = @ + 1] ELSE eng[i]]
  /\ Idles
  /\ UNCHANGED <<net, shutd, hist, srv, call>>

\* SIGINT reaches the process of engine i (signal_handler)
Shutdown(i) ==
  /\ ~shutd[i] /\ eng[i].state # "Idle"
  /\ shutd' = [shutd EXCEPT ![i] = TRUE]
  /\ Idles
  /\ UNCHANGED <<eng, net, hist, srv, call>>

\* exec() of engine i is called: the loop is entered while (is_running())
Call(i) ==
  /\ eng' = [eng EXCEPT ![i].in_exec = is_running(eng[i])]
  /\ out' = <<>> /\ lastRcv' = NoDgram /\ lastDec' = "none" /\ who' = i

\* TFTPServer::srv_poll / stop call exec() of a connection that left it on
\* Awaiting or has finished: poll reported its socket readable, or the
\* server is stopping; the loop is entered while (is_running())
Wake(i, readable) ==
  /\ eng[i].exit_on_await /\ ~eng[i].in_exec
  /\ eng[i].state # "Idle" /\ ~eng[i].crashed
  /\ readable \/ shutd[i]
  /\ Call(i)
  /\ UNCHANGED <<net, shutd, hist, srv, call>>

(* ---------- one engine against an arbitrary network ---------- *)
Configs ==
  {c \in [impl : {"base", "client", "server"}, role : {"init", "resp"},
          upload : BOOLEAN, opts : BOOLEAN, n : 0..MaxFileLen] :
     /\ c.impl = "client" => c.role = "init"
     /\ c.impl = "server" => c.role = "resp"
     /\ c.impl # "base" => ~c.opts
     /\ c.n \in IF c.upload THEN {MaxFileLen - 1, MaxFileLen} ELSE {0}}

Init ==
  /\ \E c \in Configs :
       eng = [i \in Engines |->
                IF i = 1
                THEN NewEngine(c.impl, c.role, c.upload, c.opts, "octet", Source(c.n))
                ELSE Absent("base")]
  /\ net = {}
  /\ shutd = [i \in Engines |-> FALSE]
  /\ out = <<>> /\ lastRcv = NoDgram /\ lastDec = "none" /\ who = 0
  /\ hist = [i \in Engines |-> 0]
  /\ srv = NoServer
  /\ call = NoCall

Next ==
  \/ Step(1, Inject(eng[1]) \cup {RecvFail}, FALSE)
  \/ Tick
  \/ Shutdown(1)
  \/ Wake(1, TRUE)

Spec == Init /\ [][Next]_vars

(* ---------- two engines of the program, one transfer ---------- *)
\* datagrams the network may deliver to engine i
Inbox(i) == {d \in net : d.to = eng[i].own}

\* TFTPServer::new_conn with the constructor of the connection: the first
\* request that reaches the service port creates the answering engine
Accept ==
  /\ eng[2].state = "Idle"
  /\ \E d \in net :
       /\ d.to = SvcAddr /\ d.op \in {RRQ, WRQ}
       /\ eng' = [eng EXCEPT ![2] =
                    [NewEngine(eng[2].impl, "resp", d.op = RRQ, FALSE, "octet",
                               eng[2].src)
                       EXCEPT !.rem_addr = d.from]]
  /\ Idles
  /\ UNCHANGED <<net, shutd, hist, srv, call>>

InitPair ==
  /\ \E p \in {<<"base", "base">>, <<"client", "server">>},
        up \in BOOLEAN, n \in 0..MaxFileLen :
       eng = [i \in Engines |->
                IF i = 1
                THEN NewEngine(p[1], "init", up, FALSE, "octet", Source(n))
                ELSE [Absent(p[2]) EXCEPT !.src = Source(n)]]
  /\ net = {}
  /\ shutd = [i \in Engines |-> FALSE]
  /\ out = <<>> /\ lastRcv = NoDgram /\ lastDec = "none" /\ who = 0
  /\ hist = [i \in Engines |-> 0]
  /\ srv = NoServer
  /\ call = NoCall

\* more than TFTP_PACKET_TIMEO seconds pass without engine i, which awaits
\* a packet, being scheduled
Elapse(i) ==
  /\ eng[i].state = "Awaiting" /\ ~is_timedout(eng[i])
  /\ eng[i].send_tries < MaxTimeouts
  /\ eng' = [eng EXCEPT ![i].elapsed = TFTP_PACKET_TIMEO + 1]
  /\ Idles
  /\ UNCHANGED <<net, shutd, hist, srv, call>>

NextPair ==
  \/ \E i \in Engines : Step(i, Inbox(i), TRUE)
  \/ \E i \in Engines : Elapse(i)
  \/ Accept
  \/ \E i \in Engines : Wake(i, Inbox(i) # {})

SpecPair == InitPair /\ [][NextPair]_vars

(* ---------- the server and its connections ---------- *)
\* address of the socket of connection k (sock_init binds a port of its own)
Srv2Addr == "srv2"

Tid(k) == IF k = 2 THEN SrvAddr ELSE Srv2Addr

\* descriptor of the service socket in the poll set (srv_fd.fd = this->fd);
\* the socket of connection k has descriptor k
SvcFd == 0

\* either loop of TFTPServer::conn_remove: the first element of the vector
\* with descriptor fd is erased
erase_fd(v, fd) ==
  LET Hit == {k \in 1..Len(v) : v[k] = fd} IN
  IF Hit = {} THEN v
  ELSE LET k == CHOOSE x \in Hit : \A y \in Hit : x <= y IN
       SubSeq(v, 1, k - 1) \o SubSeq(v, k + 1, Len(v))

\* conn_remove that leaves the poll set alone
conn_remove_nofds(sv, fd) ==
  [sv EXCEPT !.connections = erase_fd(@, fd)]

\* TFTPServer::conn_remove: from `connections`, then from `fds`
conn_remove(sv, fd) ==
  [sv EXCEPT !.connections = erase_fd(@, fd), !.fds = erase_fd(@, fd)]

\* TFTPServer::conn_cleanup: idx advances past the element that moved into
\* the place of an erased one
RECURSIVE conn_cleanup_from(_, _, _)
conn_cleanup_from(es, sv, idx) ==
  IF idx > Len(sv.connections) THEN sv
  ELSE IF is_running(es[sv.connections[idx]])
       THEN conn_cleanup_from(es, sv, idx + 1)
  ELSE conn_cleanup_from(es, conn_remove(sv, sv.connections[idx]), idx + 1)

conn_cleanup(es, sv) == conn_cleanup_from(es, sv, 1)

InList(i) == \E k \in 1..Len(srv.connections) : srv.connections[k] = i

\* the file a WRQ names exists when connection i handles the request:
\* another connection created it, and its destructor has not removed it
OnDisk(i) ==
  \E j \in Engines \ {1, i} :
    eng[j].file_created /\ ~(eng[j].state = "Errored" /\ ~InList(j))

\* result of the file system call of the iteration
ServerIo(i) ==
  IF eng[i].role = "resp" /\ eng[i].state = "Requesting" /\ ~eng[i].upload
     /\ OnDisk(i)
  THEN "wfail" ELSE "ok"

\* one iteration of the loop of engine i; the network delivers what was sent
StepAt(i) ==
  /\ CanStep(eng[i])
  /\ \E rcv \in RcvSet(eng[i], shutd[i], Inbox(i)) :
       \E dec \in DecSet(rcv) : Iterate(i, rcv, dec, ServerIo(i), TRUE)

\* signal_handler of the server: quit.store(true)
Signal ==
  /\ srv.pc \notin {"none", "stop", "stopexec", "closed"} /\ ~srv.quit
  /\ srv' = [srv EXCEPT !.quit = TRUE]
  /\ Idles
  /\ UNCHANGED <<eng, net, shutd, hist, call>>

\* TFTPServer::srv_poll, top of the loop: on quit stop() is entered, which
\* sets the shared shutdown flag; otherwise conn_cleanup, then poll()
SrvTop ==
  /\ srv.pc = "top"
  /\ IF srv.quit
     THEN /\ srv' = [srv EXCEPT !.pc = IF srv.connections = <<>> THEN "closed"
                                       ELSE "stop",
                                !.cur = 0]
          /\ shutd' = [i \in Engines |-> IF i = 1 THEN shutd[i] ELSE TRUE]
     ELSE /\ srv' = [conn_cleanup(eng, srv) EXCEPT !.pc = "poll"]
          /\ UNCHANGED shutd
  /\ Idles
  /\ UNCHANGED <<eng, net, hist, call>>

\* poll() returns 0 after POLL_TIMEO: continue
PollTimeout ==
  /\ srv.pc = "poll"
  /\ srv' = [srv EXCEPT !.pc = "top", !.ev = "tick"]
  /\ Idles
  /\ UNCHANGED <<eng, net, shutd, hist, call>>

\* poll() reports the socket of connection i readable: exec() is called
PollIn(i) ==
  /\ srv.pc = "poll" /\ InList(i) /\ Inbox(i) # {}
  /\ srv' = [srv EXCEPT !.pc = "exec", !.cur = i, !.rm = TRUE, !.ev = "in"]
  /\ Call(i)
  /\ UNCHANGED <<net, shutd, hist, call>>

\* poll() reports the service socket readable, TFTPServer::new_conn: a
\* request creates a connection, which is added to the vector and executed
NewConn ==
  /\ srv.pc = "poll"
  /\ \E k \in Engines \ {1} :
       /\ eng[k].state = "Idle"
       /\ \A j \in Engines \ {1} : j < k => eng[j].state # "Idle"
       /\ \E d \in net :
            /\ d.to = SvcAddr /\ d.op \in {RRQ, WRQ}
            /\ eng' = [eng EXCEPT ![k] =
                         [NewEngine(eng[k].impl, "resp", d.op = RRQ, FALSE,
                                    "octet", eng[k].src)
                            EXCEPT !.rem_addr = d.from, !.own = Tid(k)]]
       /\ srv' = [srv EXCEPT !.pc = "exec", !.cur = k, !.rm = FALSE,
                             !.ev = "new",
                             !.connections = Append(@, k),
                             !.fds = Append(@, k)]
       /\ out' = <<>> /\ lastRcv' = NoDgram /\ lastDec' = "none" /\ who' = k
  /\ UNCHANGED <<net, shutd, hist, call>>

\* datagrams for the service port that are no request a connection is
\* made for: the other packet classes, an unknown opcode, requests and an
\* acknowledgement that do not decode, one byte, none
SvcOther ==
  {MkData(1, <<>>, OthAddr, SvcAddr), MkAck(0, OthAddr, SvcAddr),
   MkError(Unknown, OthAddr, SvcAddr), MkOack(OthAddr, SvcAddr),
   Dgram(7, 0, <<>>, 4, "ok", OthAddr, SvcAddr),
   Dgram(RRQ, 0, <<>>, 10, "bad", OthAddr, SvcAddr),
   Dgram(WRQ, 0, <<>>, 3, "ok", OthAddr, SvcAddr),
   Dgram(ACK, 0, <<>>, 5, "ok", OthAddr, SvcAddr),
   Dgram(0, 0, <<>>, 1, "ok", OthAddr, SvcAddr),
   Dgram(0, 0, <<>>, 0, "ok", OthAddr, SvcAddr)}

\* TFTPServer::new_conn returning before a connection is made: recvfrom
\* gave no byte, PacketFactory::create gave nullptr, or the packet is no
\* request; an exception of PacketFactory::create is caught neither here
\* nor in srv_poll nor in main
NewConnReturn ==
  /\ srv.pc = "poll"
  /\ \E d \in SvcOther :
       \E dec \in IF d.size <= 0 THEN {"none"} ELSE create(d) :
         /\ dec = "pkt" => d.op \notin {RRQ, WRQ}
         /\ srv' = [srv EXCEPT !.pc = IF dec = "throw" THEN "crashed" ELSE "top",
                               !.ev = "drop"]
         /\ out' = <<>> /\ lastRcv' = d /\ lastDec' = dec /\ who' = 0
  /\ UNCHANGED <<eng, net, shutd, hist, call>>

\* exec() of the connection has returned (or an exception left it, which
\* nothing in the server catches)
ExecDone ==
  /\ srv.pc = "exec" /\ ~eng[srv.cur].in_exec
  /\ srv' = [(IF srv.rm /\ ~eng[srv.cur].crashed /\ ~is_running(eng[srv.cur])
               THEN conn_remove(srv, srv.cur) ELSE srv)
               EXCEPT !.pc = IF eng[srv.cur].crashed THEN "crashed" ELSE "top"]
  /\ Idles
  /\ UNCHANGED <<eng, net, shutd, hist, call>>

\* TFTPServer::stop, for (auto& conn : connections) conn->exec()
StopExec ==
  /\ srv.pc = "stop" /\ srv.cur < Len(srv.connections)
  /\ srv' = [srv EXCEPT !.pc = "stopexec", !.cur = @ + 1]
  /\ Call(srv.connections[srv.cur + 1])
  /\ UNCHANGED <<net, shutd, hist, call>>

StopExecDone ==
  /\ srv.pc = "stopexec" /\ ~eng[srv.connections[srv.cur]].in_exec
  /\ srv' = [srv EXCEPT !.pc = IF eng[srv.connections[srv.cur]].crashed
                               THEN "crashed" ELSE "stop"]
  /\ Idles
  /\ UNCHANGED <<eng, net, shutd, hist, call>>

\* TFTPServer::stop, conn_cleanup at the end of a round, then the loop
\* condition; with no connection left the service socket is closed
StopCleanup ==
  /\ srv.pc = "stop" /\ srv.cur = Len(srv.connections)
  /\ LET left == conn_cleanup(eng, srv) IN
     srv' = [left EXCEPT !.cur = 0,
                         !.pc = IF left.connections = <<>> THEN "closed"
                                ELSE "stop"]
  /\ Idles
  /\ UNCHANGED <<eng, net, shutd, hist, call>>

\* a TFTPClient and a listening TFTPServer; the file transferred is empty
\* or fills part of one block
InitServer ==
  /\ \E up \in BOOLEAN, n \in {0, TFTP_MAX_DATA - 1} :
       eng = [i \in Engines |->
                IF i = 1
                THEN NewEngine("client", "init", up, FALSE, "octet", Source(n))
                ELSE [Absent("base") EXCEPT !.src = Source(n)]]
  /\ net = {}
  /\ shutd = [i \in Engines |-> FALSE]
  /\ out = <<>> /\ lastRcv = NoDgram /\ lastDec = "none" /\ who = 0
  /\ hist = [i \in Engines |-> 0]
  /\ srv = [NoServer EXCEPT !.pc = "top", !.fds = <<SvcFd>>]
  /\ call = NoCall

NextServer ==
  \/ \E i \in Engines : StepAt(i)
  \/ \E i \in Engines : Elapse(i)
  \/ Signal
  \/ SrvTop
  \/ PollTimeout
  \/ \E i \in Engines : PollIn(i)
  \/ NewConn
  \/ NewConnReturn
  \/ ExecDone
  \/ StopExec
  \/ StopExecDone
  \/ StopCleanup

SpecServer == InitServer /\ [][NextServer]_vars

\* datagrams the peer of connection i may send to its socket besides those
\* of the transfer: an acknowledgement of five bytes, an unknown opcode, an
\* ERROR packet
ConnOther(i) ==
  {Dgram(ACK, 0, <<>>, 5, "ok", eng[i].rem_addr, eng[i].own),
   Dgram(7, 0, <<>>, 4, "ok", eng[i].rem_addr, eng[i].own),
   MkError(Unknown, eng[i].rem_addr, eng[i].own)}

\* one iteration of the loop of connection i that receives such a datagram
StepOther(i) ==
  /\ CanStep(eng[i]) /\ InList(i)
  /\ \E rcv \in RcvSet(eng[i], shutd[i], ConnOther(i)) \ {NoDgram} :
       \E dec \in DecSet(rcv) : Iterate(i, rcv, dec, ServerIo(i), TRUE)

NextMux ==
  \/ NextServer
  \/ \E i \in Engines \ {1} : StepOther(i)

\* the server, its connections and a client, the connections also being
\* sent what is no packet of their transfer
SpecMux == InitServer /\ [][NextMux]_vars

(* ---------- a NetASCII download, block after block ---------- *)
\* the bytes NetASCII treats specially and an ordinary one
Bytes == {NUL, LF, CR, 97}

Texts == UNION {[1..n -> Bytes] : n \in 0..MaxFileLen}

\* the NetASCII streams of at most MaxFileLen bytes
Streams == {s \in {vec_to_na(v) : v \in Texts} : Len(s) <= MaxFileLen}

\* the DATA packet the sender of stream eng[2].src sends next: the block
\* after the one engine 1 has acknowledged
NextBlock ==
  LET b == eng[1].block_n + 1 IN
  IF (b - 1) * TFTP_MAX_DATA > Len(eng[2].src) THEN {}
  ELSE {MkData(b, Cut(eng[2].src, (b - 1) * TFTP_MAX_DATA, TFTP_MAX_DATA),
               Peer(eng[1]), eng[1].own)}

InitNa ==
  /\ \E c \in Configs, s \in Streams :
       /\ ~c.upload /\ ~c.opts
       /\ eng = [i \in Engines |->
                   IF i = 1
                   THEN NewEngine(c.impl, c.role, FALSE, FALSE, "netascii", <<>>)
                   ELSE IF i = 2 THEN [Absent("base") EXCEPT !.src = s]
                   ELSE Absent("base")]
  /\ net = {}
  /\ shutd = [i \in Engines |-> FALSE]
  /\ out = <<>> /\ lastRcv = NoDgram /\ lastDec = "none" /\ who = 0
  /\ hist = [i \in Engines |-> 0]
  /\ srv = NoServer
  /\ call = NoCall

NextNa ==
  \/ Step(1, NextBlock, FALSE)
  \/ Wake(1, TRUE)

SpecNa == InitNa /\ [][NextNa]_vars

(* ---------- the packet codec ---------- *)
\* A packet is a record of the fields of its class; strings and byte
\* vectors are sequences of byte values.  A function that may throw
\* returns Returns(v) or Throws.
Returns(v) == [thrown |-> FALSE, v |-> v]

Throws == [thrown |-> TRUE, v |-> <<>>]

\* htons / ntohs with the memcpy next to them: a 16-bit number as two bytes
htons(n) == <<(n \div 256) % 256, n % 256>>

ntohs(bin_data, offset) == bin_data[offset + 1] * 256 + bin_data[offset + 2]

\* s copied to position offset (counted from 0) of bin_data
memcpy(bin_data, offset, s) ==
  [k \in 1..Len(bin_data) |->
     IF k > offset /\ k <= offset + Len(s) THEN s[k - offset] ELSE bin_data[k]]

\* BasePacket::findcstr: the loop looking for the terminator from `end`
RECURSIVE findcstr_end(_, _)
findcstr_end(binaryData, end) ==
  IF end < Len(binaryData) /\ binaryData[end + 1] # NUL
  THEN findcstr_end(binaryData, end + 1)
  ELSE end

\* BasePacket::findcstr: the string at offset and the position after its
\* terminator
findcstr(binaryData, offset) ==
  LET end == findcstr_end(binaryData, offset) IN
  IF end >= Len(binaryData)
  THEN [thrown |-> TRUE, result |-> <<>>, next |-> 0]
  ELSE [thrown |-> FALSE, result |-> SubSeq(binaryData, offset + 1, end),
        next |-> end + 1]

\* BasePacket::toNetascii: NetASCII and a terminator unless one ends it
toNetascii(data) ==
  LET netasciiData == vec_to_na(data) IN
  IF Len(netasciiData) = 0 \/ netasciiData[Len(netasciiData)] # NUL
  THEN Append(netasciiData, NUL)
  ELSE netasciiData

\* BasePacket::fromNetascii: plain bytes without the terminator
fromNetascii(data) ==
  LET binaryData == na_to_vec(data) IN
  IF Len(binaryData) > 0 /\ binaryData[Len(binaryData)] = NUL
  THEN SubSeq(binaryData, 1, Len(binaryData) - 1)
  ELSE binaryData

\* RequestPacket::get_mode_str as bytes: "octet" or "netascii"
get_mode_str(mode) ==
  IF mode = "octet" THEN <<111, 99, 116, 101, 116>>
  ELSE <<110, 101, 116, 97, 115, 99, 105, 105>>

\* ::tolower over a string
tolower(s) == [k \in 1..Len(s) |-> IF s[k] >= 65 /\ s[k] <= 90 THEN s[k] + 32 ELSE s[k]]

\* the loop serialising options: name NUL value NUL for each of them
RECURSIVE opts_to_binary(_, _)
opts_to_binary(opts, i) ==
  IF i > Len(opts) THEN <<>>
  ELSE vec_to_na(opts[i][1]) \o <<NUL>> \o vec_to_na(opts[i][2]) \o <<NUL>>
         \o opts_to_binary(opts, i + 1)

\* the loop parsing options, with add_option refusing a name twice
RECURSIVE opts_from_binary(_, _, _)
opts_from_binary(bin_data, offset, opts) ==
  IF offset >= Len(bin_data) THEN Returns(opts)
  ELSE LET name == findcstr(bin_data, offset) IN
       IF name.thrown \/ name.next >= Len(bin_data) THEN Throws
       ELSE LET val == findcstr(bin_data, name.next) IN
            IF val.thrown THEN Throws
            ELSE IF \E k \in 1..Len(opts) : opts[k][1] = name.result THEN Throws
            ELSE opts_from_binary(bin_data, val.next,
                                  Append(opts, <<name.result, val.result>>))

\* RequestPacket::to_binary up to the check of the length
RequestPacket_bin_data(p) ==
  LET filename_bin == vec_to_na(p.filename)
      mode_bin == vec_to_na(get_mode_str(p.mode))
      length == 2 + Len(filename_bin) + Len(mode_bin) + 2
      zeroes == [k \in 1..length |-> NUL]
      b1 == memcpy(zeroes, 0, htons(p.opcode))
      b2 == memcpy(b1, 2, filename_bin)
      b3 == memcpy(b2, 2 + Len(p.filename) + 1, mode_bin)
  IN  b3 \o opts_to_binary(p.opts, 1)

\* RequestPacket::to_binary without the check of the length
RequestPacket_to_binary_nolimit(p) ==
  IF p.filename = <<>> THEN Returns(<<>>)
  ELSE Returns(RequestPacket_bin_data(p))

RequestPacket_to_binary(p) ==
  IF p.filename = <<>> THEN Returns(<<>>)
  ELSE IF Len(RequestPacket_bin_data(p)) > MaxPacketLen THEN Throws
  ELSE Returns(RequestPacket_bin_data(p))

RequestPacket_from_binary(bin_data) ==
  IF Len(bin_data) < 4 \/ Len(bin_data) > MaxPacketLen THEN Throws
  ELSE IF ntohs(bin_data, 0) \notin {RRQ, WRQ} THEN Throws
  ELSE LET filename == findcstr(bin_data, 2) IN
       IF filename.thrown THEN Throws
       ELSE LET mode_str == findcstr(bin_data, filename.next) IN
            IF mode_str.thrown THEN Throws
            ELSE IF tolower(mode_str.result)
                      \notin {get_mode_str("octet"), get_mode_str("netascii")}
            THEN Throws
            ELSE LET opts == opts_from_binary(bin_data, mode_str.next, <<>>) IN
                 IF opts.thrown THEN Throws
                 ELSE Returns([opcode |-> ntohs(bin_data, 0),
                               filename |-> filename.result,
                               mode |-> IF tolower(mode_str.result)
                                            = get_mode_str("octet")
                                        THEN "octet" ELSE "netascii",
                               opts |-> opts.v])

OptionAckPacket_to_binary(p) ==
  IF p.opts = <<>> THEN Returns(<<>>)
  ELSE IF Len(htons(p.opcode) \o opts_to_binary(p.opts, 1)) > MaxPacketLen
  THEN Throws
  ELSE Returns(htons(p.opcode) \o opts_to_binary(p.opts, 1))

OptionAckPacket_from_binary(bin_data) ==
  IF Len(bin_data) < 4 \/ Len(bin_data) > MaxPacketLen THEN Throws
  ELSE IF ntohs(bin_data, 0) # OACK THEN Throws
  ELSE LET opts == opts_from_binary(bin_data, 2, <<>>) IN
       IF opts.thrown THEN Throws
       ELSE Returns([opcode |-> OACK, opts |-> opts.v])

\* the message of an ERROR packet is optional: msg is <<>> without one and
\* <<m>> with message m
ErrorPacket_to_binary(p) ==
  Returns(htons(p.opcode) \o htons(p.errcode)
            \o (IF p.msg # <<>> THEN toNetascii(p.msg[1]) ELSE <<>>)
            \o <<NUL>>)

ErrorPacket_from_binary(bin_data) ==
  IF Len(bin_data) < 4 THEN Throws
  ELSE IF ntohs(bin_data, 0) # ERROR THEN Throws
  ELSE IF ntohs(bin_data, 2) > NoSuchUser THEN Throws
  ELSE IF Len(bin_data) > 5
  THEN Returns([opcode |-> ERROR, errcode |-> ntohs(bin_data, 2),
                msg |-> <<fromNetascii(SubSeq(bin_data, 5, Len(bin_data) - 1))>>])
  ELSE Returns([opcode |-> ERROR, errcode |-> ntohs(bin_data, 2), msg |-> <<>>])

AcknowledgementPacket_toBinary(p) == Returns(htons(p.opcode) \o htons(p.blockN))

AcknowledgementPacket_fromBinary(binaryData) ==
  IF Len(binaryData) # 4 THEN Throws
  ELSE IF ntohs(binaryData, 0) # ACK THEN Throws
  ELSE Returns([opcode |-> ACK, blockN |-> ntohs(binaryData, 2)])

\* the encoder and the decoder of the class of packet p
to_binary(p) ==
  IF p.opcode \in {RRQ, WRQ} THEN RequestPacket_to_binary(p)
  ELSE IF p.opcode = OACK THEN OptionAckPacket_to_binary(p)
  ELSE IF p.opcode = ERROR THEN ErrorPacket_to_binary(p)
  ELSE AcknowledgementPacket_toBinary(p)

from_binary(opcode, bin_data) ==
  IF opcode \in {RRQ, WRQ} THEN RequestPacket_from_binary(bin_data)
  ELSE IF opcode = OACK THEN OptionAckPacket_from_binary(bin_data)
  ELSE IF opcode = ERROR THEN ErrorPacket_from_binary(bin_data)
  ELSE AcknowledgementPacket_fromBinary(bin_data)

(* ---------- the pure functions applied to bounded inputs ---------- *)
\* characters of a string: the two NetASCII expands and an ordinary one
Chars == {LF, CR, 97}

Strings(n) == UNION {[1..k -> Chars] : k \in 1..n}

\* options as the packets carry them: a name and a value, both strings
PacketOpts == {<<<<98>>, <<49>>>>, <<<<116>>, <<CR>>>>, <<<<LF>>, <<50>>>>}

OptLists(n) == UNION {[1..k -> PacketOpts] : k \in 0..n}

\* RequestPacket::add_option keeps the names of a request distinct
Distinct(opts) ==
  \A j, k \in 1..Len(opts) : opts[j][1] = opts[k][1] => j = k

Requests ==
  {[opcode |-> o, filename |-> f, mode |-> m, opts |-> l] :
     o \in {RRQ, WRQ}, f \in Strings(MaxNameLen), m \in {"octet", "netascii"},
     l \in {x \in OptLists(MaxReqOpts) : Distinct(x)}}

OptionAcks == {[opcode |-> OACK, opts |-> l] : l \in OptLists(MaxAckOpts) \ {<<>>}}

Errors ==
  {[opcode |-> ERROR, errcode |-> c, msg |-> m] :
     c \in Unknown..OptionNegotiation,
     m \in {<<>>, <<<<>>>>} \cup {<<s>> : s \in Strings(MaxNameLen)}}

Acks == {[opcode |-> ACK, blockN |-> b] : b \in {0, 1, 255, 256, TFTP_MAX_FILE_BLOCKS}}

Packets == Requests \cup OptionAcks \cup Errors \cup Acks

\* options as a request proposes them to proc_opts: the value is the number
\* its decimal string denotes
ProposedOpts ==
  {<<n, v>> : n \in {"blksize", "timeout", "tsize", "windowsize"},
              v \in {0, 1, TFTP_MIN_BLKSIZE - 1, TFTP_MIN_BLKSIZE, 255, 256,
                     1024, TFTP_MAX_BLKSIZE, TFTP_MAX_BLKSIZE + 1}}

Proposals == {<<>>} \cup {<<o>> : o \in ProposedOpts}
               \cup {<<a, b>> : a \in {o \in ProposedOpts : o[2] \in {0, 1024}},
                                b \in {o \in ProposedOpts : o[2] \in {1, 256}}}

\* datagrams with options as a peer may send them: an OACK or a request,
\* up to two options whose names differ, are equal or equal up to case,
\* every value val, and after them nothing, a name without value or a
\* name without terminator
RawInputs ==
  {[head |-> h, names |-> ns, val |-> v, rest |-> r] :
     h \in {htons(OACK),
            htons(RRQ) \o <<97, NUL>> \o get_mode_str("octet") \o <<NUL>>},
     ns \in UNION {[1..k -> {<<98>>, <<66>>, <<116>>}] : k \in 0..2},
     v \in {<<>>, <<49>>},
     r \in {<<>>, <<116, NUL>>, <<116>>}}

\* ERROR datagrams without a message, of every code up to the one above
\* the last of TFTPErrorCode
RawErrors ==
  {[head |-> htons(ERROR) \o htons(c) \o <<NUL>>,
    names |-> <<>>, val |-> <<>>, rest |-> <<>>] :
     c \in Unknown..(OptionNegotiation + 1)}

\* the bytes of such a datagram
RawBytes(x) ==
  x.head \o opts_to_binary([k \in 1..Len(x.names) |-> <<x.names[k], x.val>>], 1)
         \o x.rest

Input(kind, v) == [f |-> "none", kind |-> kind, arg |-> v, res |-> <<>>]

InitPure ==
  /\ eng = [i \in Engines |-> Absent("base")]
  /\ net = {}
  /\ shutd = [i \in Engines |-> FALSE]
  /\ out = <<>> /\ lastRcv = NoDgram /\ lastDec = "none" /\ who = 0
  /\ hist = [i \in Engines |-> 0]
  /\ srv = NoServer
  /\ call \in {Input("text", v) : v \in Texts}
                \cup {Input("packet", p) : p \in Packets}
                \cup {Input("opts", l) : l \in Proposals}
                \cup {Input("bytes", x) : x \in RawInputs \cup RawErrors}

Apply(kind, f, res) ==
  /\ call.f = "none" /\ call.kind = kind
  /\ call' = [call EXCEPT !.f = f, !.res = res]
  /\ UNCHANGED <<eng, net, shutd, out, lastRcv, lastDec, who, hist, srv>>

\* NetASCII::vec_to_na(v)
ApplyVecToNa == Apply("text", "vec_to_na", vec_to_na(call.arg))

\* NetASCII::na_to_vec(NetASCII::vec_to_na(v))
ApplyNaToVec == Apply("text", "na_to_vec", na_to_vec(vec_to_na(call.arg)))

\* p.to_binary()
ApplyToBinary == Apply("packet", "to_binary", to_binary(call.arg))

\* from_binary(p.to_binary()), when to_binary returned
ApplyFromBinary ==
  /\ call.f = "none" /\ call.kind = "packet"
  /\ ~to_binary(call.arg).thrown
  /\ Apply("packet", "from_binary",
           from_binary(call.arg.opcode, to_binary(call.arg).v))

\* PacketFactory::create on received bytes: from_binary of the class the
\* opcode names
ApplyCreate ==
  /\ call.f = "none" /\ call.kind = "bytes"
  /\ Apply("bytes", "from_binary",
           from_binary(ntohs(RawBytes(call.arg), 0), RawBytes(call.arg)))

\* proc_opts(opts)
ApplyProcOpts == Apply("opts", "proc_opts", proc_opts(call.arg))

NextPure ==
  \/ ApplyVecToNa
  \/ ApplyNaToVec
  \/ ApplyToBinary
  \/ ApplyFromBinary
  \/ ApplyCreate
  \/ ApplyProcOpts

SpecPure == InitPure /\ [][NextPure]_vars

(* ---------- the last blocks of the longest download ---------- *)
\* a downloading engine that has written and acknowledged block b and awaits
\* the next one; file holds the bytes written after block b
AtBlock(c, b) ==
  [NewEngine(c.impl, c.role, FALSE, FALSE, "octet", <<>>) EXCEPT
     !.state = "Awaiting",
     !.pstate = IF c.impl = "base" THEN "Downloading" ELSE "Idle",
     !.block_n = b,
     !.file_created = TRUE,
     !.exec_unblock = (c.impl = "base" /\ c.role = "resp"),
     !.rem_addr = IF c.role = "init" THEN SrvAddr ELSE CltAddr,
     !.elapsed = 0]

\* the datagrams of Inject a packet can carry: its block number is 16 bits
\* wide, the block after TFTP_MAX_FILE_BLOCKS is numbered 0
InjectBlk(e) ==
  {d \in Inject(e) : d.num <= TFTP_MAX_FILE_BLOCKS}
    \cup {MkData(e.block_n + 1, FullBlock(0), Peer(e), e.own)}

InitBlk ==
  /\ \E c \in Configs, b \in {TFTP_MAX_FILE_BLOCKS - 2, TFTP_MAX_FILE_BLOCKS - 1} :
       /\ ~c.upload /\ ~c.opts
       /\ eng = [i \in Engines |->
                   IF i = 1 THEN AtBlock(c, b) ELSE Absent("base")]
  /\ net = {}
  /\ shutd = [i \in Engines |-> FALSE]
  /\ out = <<>> /\ lastRcv = NoDgram /\ lastDec = "none" /\ who = 0
  /\ hist = [i \in Engines |-> 0]
  /\ srv = NoServer
  /\ call = NoCall

\* one iteration of the loop of engine 1, whatever its block number
StepBlk ==
  /\ eng[1].in_exec /\ is_running(eng[1]) /\ ~eng[1].crashed
  /\ Len(eng[1].file) <= MaxWritten
  /\ \E rcv \in RcvSet(eng[1], shutd[1], InjectBlk(eng[1]) \cup {RecvFail}) :
       \E dec \in DecSet(rcv) :
         \E io \in IoSet(eng[1], shutd[1]) : Iterate(1, rcv, dec, io, FALSE)

NextBlk ==
  \/ StepBlk
  \/ Tick
  \/ Wake(1, TRUE)

SpecBlk == InitBlk /\ [][NextBlk]_vars

(* ---------- time in steps of half a second ---------- *)
\* the packet the engine awaits, from its peer
Awaited(e) ==
  IF e.upload THEN {MkAck(e.block_n, Peer(e), e.own)}
  ELSE {MkData(e.block_n + 1, ShortBlock(e.block_n + 1), Peer(e), e.own),
        MkData(e.block_n + 1, FullBlock(e.block_n + 1), Peer(e), e.own)}

\* one iteration of the loop of engine 1; its peer is silent or sends the
\* packet awaited
StepTime ==
  /\ CanStep(eng[1])
  /\ \E rcv \in RcvSet(eng[1], shutd[1], Awaited(eng[1])) :
       \E dec \in DecSet(rcv) : Iterate(1, rcv, dec, "ok", FALSE)

\* half a second passes while the engine awaits a packet; is_timedout
\* counts the whole seconds (duration_cast<std::chrono::seconds>)
HalfTick ==
  /\ eng[1].state = "Awaiting" /\ eng[1].elapsed <= TFTP_PACKET_TIMEO
  /\ eng' = [eng EXCEPT ![1].elapsed = @ + eng[1].half,
                        ![1].half = 1 - @]
  /\ Idles
  /\ UNCHANGED <<net, shutd, hist, srv, call>>

NextTime ==
  \/ StepTime
  \/ HalfTick
  \/ Wake(1, TRUE)

SpecTime == Init /\ [][NextTime]_vars

(* ---------- an uploading engine, its peer and other origins ---------- *)
\* datagrams that reach the socket of an uploading engine: the peer's
\* acknowledgements and the well-formed packets another origin sends
Arrivals(e) ==
  {d \in Inject(e) : /\ create(d) = {"pkt"}
                     /\ d.from = OthAddr \/ d.op = ACK}

InitSilent == Init /\ eng[1].upload /\ ~eng[1].opts

\* the loop of exec() goes on iterating
RunStep == Step(1, Arrivals(eng[1]), FALSE)

NextSilent ==
  \/ RunStep
  \/ Tick
  \/ Wake(1, TRUE)

\* the loop of exec() keeps running, a connection of the server is called
\* again, and time passes
SpecSilent ==
  /\ InitSilent /\ [][NextSilent]_vars
  /\ WF_vars(RunStep) /\ WF_vars(Tick) /\ WF_vars(Wake(1, TRUE))

\* the last iteration received a datagram of the peer
FromPeer == lastRcv.size >= 0 /\ lastRcv.from = Peer(eng[1])

(* ---------- one transfer over a network that loses datagrams ---------- *)
\* a file that fits into one block
InitLoss ==
  /\ InitPair
  /\ Len(eng[1].src) < TFTP_MAX_DATA

\* the timeout of engine i, which awaits a packet, expires
Expire(i) ==
  /\ eng[i].state = "Awaiting" /\ ~is_timedout(eng[i])
  /\ eng' = [eng EXCEPT ![i].elapsed = TFTP_PACKET_TIMEO + 1]
  /\ Idles
  /\ UNCHANGED <<net, shutd, hist, srv, call>>

\* an iteration of engine i; a datagram sent to it is lost when no
\* iteration ever receives it
LossStep(i) == Step(i, Inbox(i), TRUE)

NextLoss ==
  \/ \E i \in Engines : LossStep(i)
  \/ \E i \in Engines : Expire(i)
  \/ Accept
  \/ \E i \in Engines : Wake(i, Inbox(i) # {})

\* both engines keep running, timers expire, the server answers a request
\* and calls a connection whose socket is readable
SpecLoss ==
  /\ InitLoss /\ [][NextLoss]_vars
  /\ \A i \in Engines : WF_vars(LossStep(i)) /\ WF_vars(Expire(i))
                        /\ WF_vars(Wake(i, Inbox(i) # {}))
  /\ WF_vars(Accept)

(* ---------- properties ---------- *)
Terminal(e) == e.state \in {"Completed", "Errored"}

\* the engine holds the address of its peer: it was created for a request
\* from it, or has accepted a block from it
Established(e) == e.role = "resp" \/ e.block_n > 0

\* engine i awaited a packet and the last iteration, its own, received rcv
Received(i) ==
  /\ who' = i /\ eng[i].state = "Awaiting" /\ lastRcv'.size >= 0

\* the fields of the engine a discarded datagram must leave alone
Core(e) ==
  <<e.state, e.pstate, e.block_n, e.send_tries, e.is_last, e.rem_addr, e.elapsed>>

(* ---------- a download and the destruction of its engine ---------- *)
\* the destructors: the local file is removed (remove() is called on a
\* path that exists); existed: the path existed before the transfer
Destructor(e, existed) ==
  IF e.impl = "base"
  THEN e.state = "Errored" /\ e.file_created /\ (existed \/ e.file_created)
  ELSE IF e.impl = "server"
  THEN /\ ~e.upload /\ e.state # "Completed" /\ e.block_n > 0
       /\ (existed \/ e.file_created)
  ELSE ~e.upload /\ e.state = "Errored" /\ e.file_created

\* call.arg: the local path of the download existed before the transfer
InitFile ==
  /\ \E c \in Configs :
       /\ ~c.upload /\ ~c.opts
       /\ eng = [i \in Engines |->
                   IF i = 1
                   THEN NewEngine(c.impl, c.role, FALSE, FALSE, "octet", <<>>)
                   ELSE Absent("base")]
  /\ net = {}
  /\ shutd = [i \in Engines |-> FALSE]
  /\ out = <<>> /\ lastRcv = NoDgram /\ lastDec = "none" /\ who = 0
  /\ hist = [i \in Engines |-> 0]
  /\ srv = NoServer
  /\ \E existed \in BOOLEAN :
       call = [f |-> "none", kind |-> "file", arg |-> existed, res |-> FALSE]

\* outcome of the file call of the request handler: the server finds an
\* existing path with access() and the base classes' handlers, which are to
\* open with O_EXCL, fail on it; TFTPClient::send_rrq opens it with O_TRUNC
FileIo(e, existed) ==
  IF e.state = "Requesting" /\ existed /\ e.impl # "client"
  THEN {"wfail"}
  ELSE {"ok", "wfail", "sfail"}

\* one iteration of the loop of the engine
StepFile ==
  /\ call.f = "none"
  /\ CanStep(eng[1])
  /\ \E rcv \in RcvSet(eng[1], shutd[1], Inject(eng[1]) \cup {RecvFail}) :
       \E dec \in DecSet(rcv) :
         \E io \in IoSet(eng[1], shutd[1]) \cap FileIo(eng[1], call.arg) :
           Iterate(1, rcv, dec, io, FALSE)

\* the engine, Completed or Errored, is destroyed
Destroy ==
  /\ call.f = "none"
  /\ Terminal(eng[1]) /\ ~eng[1].in_exec
  /\ call' = [call EXCEPT !.f = "destroy", !.res = Destructor(eng[1], call.arg)]
  /\ Idles
  /\ UNCHANGED <<eng, net, shutd, hist, srv>>

NextFile ==
  \/ StepFile
  \/ call.f = "none" /\ Tick
  \/ call.f = "none" /\ Shutdown(1)
  \/ call.f = "none" /\ Wake(1, TRUE)
  \/ Destroy

SpecFile == InitFile /\ [][NextFile]_vars

(* ---------- two server transfers answering WRQs for one path ---------- *)
\* call.arg: the path existed before either transfer; call.res: the
\* transfers destroyed so far, each with whether its destructor removed the
\* file.  The path exists when it existed before or a transfer created it,
\* and no destructor has removed it since.
Destroyed(i) == \E u \in BOOLEAN : <<i, u>> \in call.res

Unlinked(i) == <<i, TRUE>> \in call.res

Exists ==
  \/ call.arg /\ \A j \in {2, 3} : ~Unlinked(j)
  \/ \E j \in {2, 3} : eng[j].file_created /\ ~Unlinked(j)

Live(i) == eng[i].state # "Idle" /\ ~Destroyed(i)

\* the transfer is constructed for a WRQ and its loop entered: the first
\* iteration handles the request
AcceptWrq(i) ==
  /\ eng[i].state = "Idle"
  /\ LET e0 == [NewEngine("server", "resp", FALSE, FALSE, "octet", <<>>)
                  EXCEPT !.own = Tid(i),
                         !.rem_addr = IF i = 2 THEN CltAddr ELSE OthAddr]
         r == exec(e0, FALSE, NoDgram, "none", IF Exists THEN "wfail" ELSE "ok")
     IN /\ eng' = [eng EXCEPT ![i] =
                     [r.e EXCEPT !.in_exec = ~r.brk /\ ~r.exc /\ is_running(r.e),
                                 !.crashed = r.exc]]
        /\ out' = r.out
  /\ lastRcv' = NoDgram /\ lastDec' = "none" /\ who' = i
  /\ UNCHANGED <<net, shutd, hist, srv, call>>

\* what the client of transfer i may send it: the next block, full or
\* short, an ACK and an ERROR
FromClient(e) ==
  {MkData(e.block_n + 1, FullBlock(e.block_n + 1), e.rem_addr, e.own),
   MkData(e.block_n + 1, ShortBlock(e.block_n + 1), e.rem_addr, e.own),
   MkAck(0, e.rem_addr, e.own), MkError(Unknown, e.rem_addr, e.own)}

\* a further iteration of the loop of transfer i
StepWrq(i) ==
  /\ ~Destroyed(i) /\ CanStep(eng[i])
  /\ \E rcv \in RcvSet(eng[i], shutd[i], FromClient(eng[i])) :
       \E dec \in DecSet(rcv) : Iterate(i, rcv, dec, "ok", FALSE)

\* transfer i has ended and is destroyed
DestroyWrq(i) ==
  /\ Terminal(eng[i]) /\ ~eng[i].in_exec /\ ~Destroyed(i)
  /\ call' = [call EXCEPT !.f = "destroy",
                !.res = @ \cup {<<i, Exists /\ Destructor(eng[i], Exists)>>}]
  /\ out' = <<>> /\ lastRcv' = NoDgram /\ lastDec' = "none" /\ who' = i
  /\ UNCHANGED <<eng, net, shutd, hist, srv>>

InitWrq ==
  /\ eng = [i \in Engines |-> Absent("server")]
  /\ net = {}
  /\ shutd = [i \in Engines |-> FALSE]
  /\ out = <<>> /\ lastRcv = NoDgram /\ lastDec = "none" /\ who = 0
  /\ hist = [i \in Engines |-> 0]
  /\ srv = NoServer
  /\ \E existed \in BOOLEAN :
       call = [f |-> "none", kind |-> "disk", arg |-> existed, res |-> {}]

NextWrq ==
  \E i \in {2, 3} :
    \/ AcceptWrq(i)
    \/ StepWrq(i)
    \/ DestroyWrq(i)

SpecWrq == InitWrq /\ [][NextWrq]_vars

\* C1: once an engine is Completed or Errored, nothing changes its state:
\* no loop iteration, timeout, datagram, shutdown or further call of exec().
C1_TerminalStable ==
  [][\A i \in Engines : Terminal(eng[i]) => eng'[i].state = eng[i].state]_vars

\* exec() was called again on an engine that had terminated, after the
\* shutdown flag was set
C1_Witness ==
  /\ Terminal(eng[1]) /\ shutd[1]
  /\ who = 1 /\ out = <<>> /\ lastRcv = NoDgram

\* C2: in a transfer between two engines in octet mode, when the
\* downloading engine is Completed its file is the source of the uploading
\* engine: the payloads of the blocks in order, each written once.
C2_FileIsSource ==
  \A i, j \in Engines :
    (/\ i # j /\ eng[j].state # "Idle" /\ eng[j].upload
     /\ ~eng[i].upload /\ eng[i].format = "octet" /\ eng[i].state = "Completed")
      => eng[i].file = eng[j].src

\* C3: a downloading engine that awaits a packet and receives a DATA packet
\* from its peer accepts it (goes on to Downloading) only if its block
\* number is block_n + 1; a DATA packet of a lower block is discarded and
\* one of a higher block is answered with ERROR 4 and the engine is Errored.
C3_AcceptsNextBlock ==
  [][\A i \in Engines :
       (/\ Received(i) /\ ~eng[i].upload
        /\ lastRcv'.op = DATA /\ lastDec' = "pkt"
        /\ lastRcv'.from = eng'[i].rem_addr)
         => /\ eng'[i].state = "Downloading"
                 => lastRcv'.num = eng[i].block_n + 1
            /\ lastRcv'.num < eng[i].block_n + 1
                 => /\ out' = <<>>
                    /\ eng'[i].state = "Awaiting"
                    /\ eng'[i].block_n = eng[i].block_n
            /\ lastRcv'.num > eng[i].block_n + 1
                 => /\ out' = <<MkError(IllegalOperation, eng[i].own, eng'[i].rem_addr)>>
                    /\ eng'[i].state = "Errored"]_vars

\* C4: an uploading engine that awaits a packet and receives an ACK from its
\* peer accepts it (goes on to Uploading or Completed) only if its block
\* number is block_n; an ACK of a lower block is discarded, nothing is sent
\* and the engine keeps awaiting; an ACK of a higher block is answered with
\* ERROR 4 to the peer and the engine is Errored.
C4_AckOfCurrentBlock ==
  [][\A i \in Engines :
       (/\ Received(i) /\ eng[i].upload
        /\ lastRcv'.op = ACK /\ lastDec' = "pkt"
        /\ lastRcv'.from = eng'[i].rem_addr)
         => /\ eng'[i].state \in {"Uploading", "Completed"}
                 => lastRcv'.num = eng[i].block_n
            /\ lastRcv'.num < eng[i].block_n
                 => /\ out' = <<>>
                    /\ eng'[i].state = "Awaiting"
                    /\ eng'[i].block_n = eng[i].block_n
                    /\ eng'[i].send_tries = eng[i].send_tries
            /\ lastRcv'.num > eng[i].block_n
                 => /\ out' = <<MkError(IllegalOperation, eng[i].own, eng'[i].rem_addr)>>
                    /\ eng'[i].state = "Errored"]_vars

\* an ACK of the current block was accepted, and one of a higher block refused
C4_Witness ==
  /\ eng[1].upload /\ who = 1 /\ lastRcv.op = ACK /\ lastDec = "pkt"
  /\ \/ eng[1].state = "Uploading" /\ eng[1].block_n = lastRcv.num + 1
                                   /\ eng[1].block_n >= 2
     \/ eng[1].state = "Errored" /\ lastRcv.num > eng[1].block_n
                                 /\ eng[1].block_n >= 1

C6_SendTriesBounded ==
  [][\A i \in Engines :
       /\ eng'[i].send_tries <= TFTP_MAX_RETRIES
       /\ (/\ Received(i)
           /\ eng'[i].state \in {"Uploading", "Downloading", "Completed"})
            => eng'[i].send_tries = 0]_vars

\* C7: an engine no datagram reaches sends the packet it awaits an answer to
\* at most TFTP_MAX_RETRIES times.
C7_FourTransmissions == \A i \in Engines : hist[i] <= TFTP_MAX_RETRIES

\* C8: a decodable datagram from another address than the established peer
\* is answered with one ERROR 5 to that address and nothing else, and
\* leaves state, block_n, send_tries, the peer and the timer as they were.
C8_ForeignOrigin ==
  [][\A i \in Engines :
       (/\ Received(i) /\ Established(eng[i])
        /\ lastRcv'.size > 0 /\ lastDec' = "pkt"
        /\ lastRcv'.from # eng[i].rem_addr)
         => /\ out' = <<MkError(UnknownTID, eng[i].own, lastRcv'.from)>>
            /\ Core(eng'[i]) = Core(eng[i])]_vars

\* C9: no datagram from another address than the established peer makes the
\* engine Errored or Completed or changes block_n.
C9_ForeignHarmless ==
  [][\A i \in Engines :
       (/\ Received(i) /\ Established(eng[i])
        /\ lastRcv'.size > 0
        /\ lastRcv'.from # eng[i].rem_addr)
         => /\ ~Terminal(eng'[i])
            /\ eng'[i].block_n = eng[i].block_n]_vars

\* C10: a non-empty datagram from the peer that does not decode is answered
\* with ERROR 4 to the peer, the engine is Errored, and no exception leaves
\* the iteration.
C10_UndecodableRejected ==
  [][\A i \in Engines :
       (/\ Received(i) /\ Established(eng[i])
        /\ lastRcv'.size > 0 /\ lastDec' # "pkt"
        /\ lastRcv'.from = eng[i].rem_addr)
         => /\ out' = <<MkError(IllegalOperation, eng[i].own, eng[i].rem_addr)>>
            /\ eng'[i].state = "Errored"
            /\ ~eng'[i].crashed]_vars

\* C11: a WRQ that reaches the service port from a client whose transfer the
\* server is already running is answered by that transfer: no further
\* connection is created for the client, and while that transfer runs no
\* other connection of the server sends an ERROR.
C11_RetransmittedRequest ==
  [][/\ (srv.pc = "poll" /\ srv'.pc = "exec" /\ srv'.ev = "new")
          => \A j \in Engines \ {1} :
               (InList(j) /\ is_running(eng[j]) /\ ~eng[j].upload)
                 => eng[j].rem_addr # eng'[srv'.cur].rem_addr
     /\ \A j \in Engines \ {1} :
          (/\ who' = j /\ ~shutd[j]
           /\ \E i \in Engines \ {1, j} :
                InList(i) /\ is_running(eng[i]) /\ ~eng[i].upload)
            => \A k \in 1..Len(out') : out'[k].op # ERROR]_vars

\* C12: when poll() returns without an event, the server steps every
\* connection of its list that awaits a packet and whose timeout has
\* expired.
C12_TickStepsAwaiting ==
  [][(srv.pc = "poll" /\ srv'.pc = "top" /\ srv'.ev = "tick")
       => \A i \in Engines \ {1} :
            (InList(i) /\ eng[i].state = "Awaiting" /\ is_timedout(eng[i]))
              => eng'[i] # eng[i]]_vars

C14_NetasciiFile ==
  (eng[1].format = "netascii" /\ eng[1].state = "Completed")
    => eng[1].file = na_to_vec(eng[2].src)

\* C15: decoding the NetASCII encoding of a byte sequence gives the
\* sequence back, a CR immediately followed by LF included.
C15_NetasciiRoundTrip ==
  call.f = "na_to_vec" => call.res = call.arg

\* C16: the NetASCII encoding of a byte sequence has no bare CR and no bare
\* LF: every CR is followed by LF or NUL, every LF is preceded by CR.
C16_NoBareCr ==
  call.f = "vec_to_na"
    => \A k \in 1..Len(call.res) :
         /\ call.res[k] = CR
              => k < Len(call.res) /\ call.res[k + 1] \in {LF, NUL}
         /\ call.res[k] = LF => k > 1 /\ call.res[k - 1] = CR

\* a sequence with a lone CR and a lone LF has been encoded
C16_Witness ==
  /\ call.f = "vec_to_na"
  /\ \E j, k \in 1..Len(call.arg) :
       /\ call.arg[j] = CR /\ (j = Len(call.arg) \/ call.arg[j + 1] # LF)
       /\ call.arg[k] = LF /\ (k = 1 \/ call.arg[k - 1] # CR)
  /\ Len(call.res) = Len(call.arg) + 2

\* C17: a packet that was encoded decodes, and decodes to an equal packet:
\* decode(encode(P)) = P for a Request, an Ack, an Error with any code from
\* 0 to 8 with or without a message, and an OptionAck.
C17_CodecRoundTrip ==
  (call.kind = "packet" /\ call.f = "from_binary")
    => ~call.res.thrown /\ call.res.v = call.arg

\* C18: encoding a Request or an OptionAck never yields more bytes than the
\* packet limit: the encoder returns at most that many bytes or refuses.
C18_EncodingBounded ==
  (call.f = "to_binary" /\ call.arg.opcode \in {RRQ, WRQ, OACK})
    => call.res.thrown \/ Len(call.res.v) <= MaxPacketLen

\* a request whose bytes exceed the limit has been refused
C18_Witness ==
  /\ call.f = "to_binary" /\ call.arg.opcode \in {RRQ, WRQ}
  /\ Len(RequestPacket_bin_data(call.arg)) > MaxPacketLen
  /\ call.res.thrown

\* C19: the server side accepts a proposed blksize exactly when it lies
\* between 8 and 65464, a timeout exactly when it lies between 1 and 255 and
\* tsize as it is; the accepted options are those, in the order proposed,
\* and unknown or out-of-range ones are left out.
C19_AcceptedOptions ==
  LET Acceptable(o) ==
        \/ o[1] = "blksize" /\ TFTP_MIN_BLKSIZE <= o[2] /\ o[2] <= TFTP_MAX_BLKSIZE
        \/ o[1] = "timeout" /\ 1 <= o[2] /\ o[2] <= 255
        \/ o[1] = "tsize"
  IN  call.f = "proc_opts" => call.res = SelectSeq(call.arg, Acceptable)

\* C20: block numbers never wrap: block_n never exceeds 0xFFFF, and a
\* downloading engine that awaits a packet and receives the DATA packet of
\* the next block from its peer accepts it, whatever block of 1..65535 it
\* is: it does not abort the transfer.
C20_BlockNumbers ==
  [][/\ eng'[1].block_n <= TFTP_MAX_FILE_BLOCKS
     /\ (/\ Received(1) /\ ~eng[1].upload
         /\ lastRcv'.op = DATA /\ lastDec' = "pkt"
         /\ lastRcv'.from = eng[1].rem_addr
         /\ lastRcv'.num = eng[1].block_n + 1)
          => /\ eng'[1].state # "Errored"
             /\ eng'[1].block_n = eng[1].block_n + 1
             /\ \A k \in 1..Len(out') : out'[k].op # ERROR]_vars

\* C21: when a transfer is destroyed its local file is removed exactly when
\* the transfer is Errored and the file was newly created by it: the path
\* did not exist before and the transfer created it.
C21_UnlinkOnDestroy ==
  call.f = "destroy"
    => (call.res <=> (eng[1].state = "Errored" /\ eng[1].file_created /\ ~call.arg))

\* C22: of two server transfers answering WRQs for one path whose lifetimes
\* overlap at most one creates and writes the file: a transfer constructed
\* while the other is alive and has created the file sends Error 6, is
\* Errored and creates nothing; a transfer that has not created the file
\* never writes it, and its destructor does not remove it.
C22_OneWriter ==
  [][\A i \in {2, 3} : \A j \in {2, 3} \ {i} :
       /\ (eng[i].state = "Idle" /\ eng'[i].state # "Idle"
             /\ Live(j) /\ eng[j].file_created)
            => /\ out' = <<MkError(FileAlreadyExists, eng'[i].own, eng'[i].rem_addr)>>
               /\ eng'[i].state = "Errored"
               /\ ~eng'[i].file_created
       /\ ~eng'[i].file_created
            => eng'[i].file = <<>> /\ <<i, TRUE>> \notin call'.res]_vars

\* a transfer was refused with Error 6 and destroyed while the other, which
\* created the file, had written a block and was still alive
C22_Witness ==
  \E i \in {2, 3} : \E j \in {2, 3} \ {i} :
    /\ Live(j) /\ eng[j].file_created /\ eng[j].block_n > 0 /\ eng[j].file # <<>>
    /\ eng[i].state = "Errored" /\ ~eng[i].file_created
    /\ <<i, FALSE>> \in call.res /\ Exists

\* C23: a datagram on the service socket that is not a valid RRQ or WRQ is
\* dropped: no connection is made, nothing is sent, the connections list
\* is unchanged and the loop of srv_poll goes on
C23_NonRequestDropped ==
  [][(srv.pc = "poll" /\ lastRcv'.to = SvcAddr
        /\ ~(lastDec' = "pkt" /\ lastRcv'.op \in {RRQ, WRQ}))
       => /\ srv'.pc = "top"
          /\ srv'.connections = srv.connections
          /\ eng' = eng /\ net' = net /\ out' = <<>>]_vars

\* C24: an error inside one transfer of the server terminates only that
\* transfer: the iteration in which connection i fails leaves every other
\* connection as it was, and when its exec() has ended srv_poll goes on
C24_ErrorsContained ==
  [][/\ \A i \in Engines \ {1} :
          (who' = i /\ is_running(eng[i])
             /\ (eng'[i].state = "Errored" \/ eng'[i].crashed))
            => \A j \in Engines \ {1, i} : eng'[j] = eng[j]
     /\ (srv.pc = "exec" /\ srv'.pc # "exec"
           /\ (eng[srv.cur].state = "Errored" \/ eng[srv.cur].crashed))
          => srv'.pc = "top"]_vars

\* C25: a stray packet from the peer (an Ack below block_n while uploading,
\* a Data packet below block_n + 1 while downloading) is discarded without
\* any change of the state, block_n, send_tries, is_last, the timer, the
\* local file or the buffered packet a later Downloading step reads, and
\* nothing is sent.
C25_StrayDiscarded ==
  [][(/\ Received(1) /\ lastDec' = "pkt"
      /\ lastRcv'.from = IF Established(eng[1]) THEN eng[1].rem_addr
                         ELSE Peer(eng[1])
      /\ IF eng[1].upload
         THEN lastRcv'.op = ACK /\ lastRcv'.num < eng[1].block_n
         ELSE lastRcv'.op = DATA /\ lastRcv'.num < eng[1].block_n + 1)
       => /\ eng'[1].state = eng[1].state
          /\ eng'[1].block_n = eng[1].block_n
          /\ eng'[1].send_tries = eng[1].send_tries
          /\ eng'[1].is_last = eng[1].is_last
          /\ eng'[1].elapsed = eng[1].elapsed
          /\ eng'[1].file = eng[1].file
          /\ ~eng[1].upload => /\ eng'[1].rx_buf = eng[1].rx_buf
                               /\ eng'[1].rx_len = eng[1].rx_len
          /\ out' = <<>>]_vars

\* C26: exec() of an engine with exit_on_await returns after at most one
\* received datagram: a loop iteration that has received a datagram, or
\* has done the file and socket work that follows one, and leaves the
\* engine Awaiting, is the last of the call but for the check of
\* exec_unblock; exec() does not go on to wait for a further datagram.
C26_ExecReturns ==
  [][(/\ who' = 1 /\ eng[1].exit_on_await /\ eng[1].in_exec
      /\ Received(1) \/ eng[1].state \in {"Uploading", "Downloading"}
      /\ eng'[1].state = "Awaiting")
       => ~eng'[1].in_exec \/ eng'[1].exec_unblock]_vars

\* C27: the peer address is latched at most once.  It changes only in an
\* engine without addr_static that has sent the request and holds no peer
\* yet, and then to the origin of the packet received; the first packet
\* decoded latches its origin; a packet of another origin than the
\* latched peer is not taken for the peer's (state and block_n stay).
C27_PeerLatchedOnce ==
  [][LET e == eng[1]
         unlatched == e.role = "init" /\ e.rem_addr = SvcAddr
     IN /\ eng'[1].rem_addr # e.rem_addr
             => /\ ~e.addr_static /\ unlatched /\ Received(1)
                /\ eng'[1].rem_addr = lastRcv'.from
        /\ (Received(1) /\ lastDec' = "pkt" /\ unlatched /\ ~e.addr_static)
             => eng'[1].rem_addr = lastRcv'.from
        /\ (Received(1) /\ lastDec' = "pkt" /\ ~unlatched
              /\ lastRcv'.from # e.rem_addr)
             => eng'[1].state = e.state /\ eng'[1].block_n = e.block_n]_vars

\* C28: after handle_download has processed a non-empty block in NetASCII
\* mode, cr_end is true iff the last byte of the block's payload as it was
\* received is CR.
C28_CrEndOfPayload ==
  [][LET raw == eng[1].rx_buf.data IN
     (/\ who' = 1 /\ eng[1].state = "Downloading" /\ eng[1].format = "netascii"
      /\ eng[1].block_n > 0 /\ eng[1].rx_len > 0 /\ eng[1].rx_buf.ok
      /\ raw # <<>> /\ eng'[1].state \in {"Awaiting", "Completed"})
       => (eng'[1].cr_end <=> raw[Len(raw)] = CR)]_vars

\* C29: with time passing in steps finer than a second, an iteration of an
\* await handler takes the timeout branch (it retransmits: send_tries is
\* incremented, or it gives up: the engine is Errored) exactly when more
\* than TFTP_PACKET_TIMEO seconds have passed since the last packet.
C29_TimeoutAfterThreeSeconds ==
  [][(/\ who' = 1 /\ eng[1].state = "Awaiting" /\ eng[1].in_exec
      /\ ~eng[1].exec_unblock /\ ~shutd[1])
       => ((eng'[1].send_tries = eng[1].send_tries + 1
              \/ eng'[1].state = "Errored")
            <=> 2 * eng[1].elapsed + eng[1].half > 2 * TFTP_PACKET_TIMEO)]_vars

\* C30: decoding a request or an OACK rejects two options whose names are
\* equal up to the case of their letters, and rejects an option name that
\* no value follows.
C30_OptionNames ==
  (call.kind = "bytes" /\ call.f = "from_binary")
    => LET ns == call.arg.names IN
       ((\E j, k \in 1..Len(ns) : j < k /\ tolower(ns[j]) = tolower(ns[k]))
          \/ call.arg.rest # <<>>)
         => call.res.thrown

\* C31: decoding an ERROR packet accepts every error code from 0 to 8 and
\* rejects exactly the codes above 8.
C31_ErrorCodes ==
  (call.kind = "bytes" /\ call.f = "from_binary"
     /\ ntohs(RawBytes(call.arg), 0) = ERROR)
    => (call.res.thrown <=> ntohs(RawBytes(call.arg), 2) > OptionNegotiation)

\* C32: an uploading engine sends its source in blocks of blksize bytes,
\* block b carrying the b-th chunk: k full blocks for a source of k full
\* chunks, then one shorter block (empty when the length is a multiple of
\* blksize, the empty source included), which is the last block sent and
\* is marked as last; the engine completes only after it.
C32_LastBlockShort ==
  \A u \in {1, 2} :
    (eng[u].upload /\ eng[u].state # "Idle")
      => LET src == eng[u].src
             k == Len(src) \div TFTP_MAX_DATA
             Sent == {d \in net : d.op = DATA /\ d.from = eng[u].own}
         IN /\ \A d \in Sent :
                 /\ d.num <= k + 1
                 /\ d.data = Cut(src, (d.num - 1) * TFTP_MAX_DATA, TFTP_MAX_DATA)
            /\ eng[u].is_last => eng[u].block_n = k + 1
            /\ eng[u].state = "Completed"
                 => eng[u].is_last /\ \E d \in Sent : d.num = k + 1

\* C34: every retransmission of Data block n carries the payload of the
\* first transmission of block n: no sender ever emits two Data packets
\* with the same block number and different payloads.
C34_SameRetransmission ==
  \A d1, d2 \in net :
    (d1.op = DATA /\ d2.op = DATA /\ d1.from = d2.from /\ d1.num = d2.num)
      => d1.data = d2.data

\* C33: one call of TFTPServer::conn_cleanup (at the top of the loop of
\* srv_poll, or at the end of a round of stop) leaves no finished transfer
\* in the connections list or in the poll set, and removes no running one:
\* what remains is exactly the running transfers, in their order.
C33_CleanupRemovesFinished ==
  [][((srv.pc = "top" /\ ~srv.quit /\ srv'.pc = "poll")
        \/ (srv.pc = "stop" /\ srv.cur # 0 /\ srv'.cur = 0))
       => /\ srv'.connections
               = SelectSeq(srv.connections, LAMBDA i : is_running(eng[i]))
          /\ srv'.fds
               = SelectSeq(srv.fds,
                           LAMBDA f : f = SvcFd \/ is_running(eng[f]))]_vars

\* C39: between the operations of the server the poll set is the service
\* socket followed by one entry per transfer of the connections list, with
\* the descriptor of that transfer.
C39_PollSetMatches ==
  srv.pc # "none" => srv.fds = <<SvcFd>> \o srv.connections

\* a transfer was removed while a later one stays: the poll set holds the
\* service socket and the remaining transfer
C39_Witness ==
  srv.connections = <<3>> /\ srv.fds = <<SvcFd, 3>>

\* C37: an engine that receives an Error packet, from its peer or from any
\* other origin, sends no Error packet in response.
C37_NoErrorForError ==
  [][\A i \in Engines :
       (/\ Received(i)
        /\ lastRcv'.op = ERROR /\ lastDec' = "pkt")
         => \A k \in 1..Len(out') : out'[k].op # ERROR]_vars

\* C38: an OptionAck received while block_n is not 0 (an Ack or Data packet
\* was accepted before it) is no forward progress: it does not change
\* block_n, does not complete the transfer and does not reset send_tries.
C38_OackOnlyFirst ==
  [][\A i \in Engines :
       (/\ Received(i)
        /\ lastRcv'.op = OACK /\ lastDec' = "pkt"
        /\ eng[i].block_n > 0)
         => /\ eng'[i].block_n = eng[i].block_n
            /\ eng'[i].state # "Completed"
            /\ eng'[i].send_tries = eng[i].send_tries]_vars

\* C36: when the peer sends only finitely many datagrams, the engine
\* eventually reaches Completed or Errored, also when datagrams of other
\* origins keep arriving: the retransmission timeout still expires and the
\* retry limit still ends the transfer.
C36_SilentPeerEnds ==
  <>[](~FromPeer) => <>(eng[1].state \in {"Completed", "Errored"})

\* C35: whenever the downloading engine of a transfer reaches Completed,
\* the uploading engine eventually reaches Completed too, also when
\* datagrams (the Ack of the last block among them) are lost.
C35_BothComplete ==
  (\E d \in Engines : ~eng[d].upload /\ eng[d].state = "Completed")
    ~> (\E u \in Engines : eng[u].upload /\ eng[u].state = "Completed")

====
